---- MODULE Spec2Model ----
(***************************************************************************)
(* The PostgreSQL logical-replication source of                            *)
(* src/storage/src/source/postgres.rs: the supervised replication loop     *)
(* (postgres_replication_loop / postgres_replication_loop_inner), the      *)
(* decoder generator (produce_replication), the snapshot generator         *)
(* (produce_snapshot) and the coalescer (RowSender), run against an        *)
(* upstream that commits transactions to its WAL.                          *)
(*                                                                         *)
(* LSNs are natural numbers; 0 is PgLsn::from(0), "no resume point".       *)
(* One upstream transaction is one WAL entry [lsn, msgs]: lsn is the       *)
(* end_lsn of its Commit, msgs the row messages between Begin and Commit.  *)
(***************************************************************************)
EXTENDS Integers, Sequences, FiniteSets, TLC

\* ------------------------------------------------------------------ bounds
MaxLsn == 3        \* the upstream WAL grows up to this LSN
MaxMsgs == 2       \* row messages per upstream transaction
MaxRow == 1        \* distinct row values per table
MaxErrors == 1     \* transient or definite failures injected per run
MaxProbes == 1     \* times the decoder leaves streaming for the probe
MaxEvents == 3     \* row messages, failures, probes and host events of a run, together
Capacity == 1      \* slots of the channel (tokio::sync::mpsc::channel(50_000))
Columns == 2       \* columns of a table whose tuples are decoded field by field
MaxCalls == 3      \* calls made to the coalescer on its own

\* ------------------------------------------------- tables of the publication
\* publication_details.tables, by oid, in publication order
PubTables == <<11, 12, 13>>
\* the output indexes that have casts (table_casts.keys())
TableCasts == {1, 3}

PubOids == {PubTables[i] : i \in 1..Len(PubTables)}

\* render(): output_index = i + 1 (here i is already 1-based) for the tables
\* that have casts; the map is keyed by oid.
SourceTableIndexes == {i \in 1..Len(PubTables) : i \in TableCasts}
SourceOids == {PubTables[i] : i \in SourceTableIndexes}
source_tables == [o \in SourceOids |->
                    CHOOSE i \in SourceTableIndexes : PubTables[i] = o]

\* ------------------------------------------------------ table descriptions
\* PostgresTableDesc, as far as the compatibility check reads it: whether the
\* publication has the table, and its columns in order
Column(name, type, nullable) ==
    [name |-> name, type |-> type, nullable |-> nullable]
TableDesc(columns) == [present |-> TRUE, columns |-> columns]
\* publication_info returns no description for the table
Missing == [present |-> FALSE, columns |-> <<>>]

\* info.desc: the description the source was created with, for every table
StoredDesc(oid) == TableDesc(<<Column("a", "int4", FALSE)>>)

\* what DDL can make of a description upstream: a column renamed, a column
\* of another type, a column added
Renamed(d) == [d EXCEPT !.columns[1].name = "b"]
Retyped(d) == [d EXCEPT !.columns[1].type = "text"]
Widened(d) == [d EXCEPT !.columns = Append(@, Column("c", "int4", TRUE))]

\* desc.determine_compatibility(other) succeeds: same column count and, for
\* each position, same name, same type and compatible nullability
compatible_with(desc, other) ==
    /\ Len(desc.columns) = Len(other.columns)
    /\ \A i \in 1..Len(desc.columns) :
          /\ desc.columns[i].name = other.columns[i].name
          /\ desc.columns[i].type = other.columns[i].type
          /\ desc.columns[i].nullable \/ ~other.columns[i].nullable

\* mutant of TableError: a table the publication still has is not compared
TableErrorOnlyMissing(oid, remote) ==
    IF remote.present THEN "none" ELSE "Definite"

\* what the check of one source table against the publication returns
TableError(oid, remote) ==
    IF remote.present /\ compatible_with(StoredDesc(oid), remote)
    THEN "none" ELSE "Definite"

\* determine_table_compatibility(source_tables, publication_tables): the
\* first source table that is missing or incompatible decides
determine_table_compatibility(pub) ==
    IF \E o \in SourceOids : TableError(o, pub[o]) = "Definite"
    THEN "Definite" ELSE "none"

Rows == 1..MaxRow
Keys == PubOids \X Rows

\* ---------------------------------------------------------------- upstream
\* A row message names the row it removed (old) and the row it added (new);
\* full says whether the message carries the old row as its old tuple, which
\* it does for a table with REPLICA IDENTITY FULL.
Insert(rel, new) ==
    [kind |-> "Insert", rel |-> rel, old |-> 0, new |-> new, full |-> TRUE]
Update(rel, old, new) ==
    [kind |-> "Update", rel |-> rel, old |-> old, new |-> new, full |-> TRUE]
Delete(rel, old) ==
    [kind |-> "Delete", rel |-> rel, old |-> old, new |-> 0, full |-> TRUE]
Truncate(rel) ==
    [kind |-> "Truncate", rel |-> rel, old |-> 0, new |-> 0, full |-> TRUE]

\* the Update and the Delete of a table whose replica identity is not FULL:
\* the old row is gone upstream but the message has no old tuple
UpdateNoOld(rel, old, new) == [Update(rel, old, new) EXCEPT !.full = FALSE]
DeleteNoOld(rel, old) == [Delete(rel, old) EXCEPT !.full = FALSE]

\* messages of the stream that name no row: the description of a relation,
\* the origin of a transaction and a data type
Relation(rel) ==
    [kind |-> "Relation", rel |-> rel, old |-> 0, new |-> 0, full |-> TRUE]
Origin ==
    [kind |-> "Origin", rel |-> 0, old |-> 0, new |-> 0, full |-> TRUE]
Type ==
    [kind |-> "Type", rel |-> 0, old |-> 0, new |-> 0, full |-> TRUE]

RowKinds == {"Insert", "Update", "Delete"}

\* update.old_tuple() / delete.old_tuple(): None is NoTuple
NoTuple == 0
old_tuple(m) == IF m.full THEN m.old ELSE NoTuple

\* the tables the upstream writes to while the source runs: one that is a
\* source table and one that is not
WrittenOids == {PubTables[1], PubTables[2]}

RowMsgs == {Insert(o, r) : o \in WrittenOids, r \in Rows}
           \cup {Delete(o, r) : o \in WrittenOids, r \in Rows}
           \cup {Update(o, r[1], r[2]) : o \in WrittenOids, r \in Rows \X Rows}
           \cup {Truncate(o) : o \in WrittenOids}

\* the row messages of tables whose replica identity is or is not FULL
AnyRowMsgs == {Insert(o, r) : o \in WrittenOids, r \in Rows}
              \cup {Delete(o, r) : o \in WrittenOids, r \in Rows}
              \cup {Update(o, r[1], r[2]) : o \in WrittenOids, r \in Rows \X Rows}
              \cup {DeleteNoOld(o, r) : o \in WrittenOids, r \in Rows}
              \cup {UpdateNoOld(o, r[1], r[2]) : o \in WrittenOids, r \in Rows \X Rows}

\* table contents: multiplicity of every (oid, row)
EmptyTables == [k \in Keys |-> 0]
BaseTables == [k \in Keys |-> IF k = <<PubTables[1], 1>> THEN 1 ELSE 0]

\* a row message applies only to a row that is there
Applicable(c, m) ==
    IF m.kind \in {"Update", "Delete"} THEN c[<<m.rel, m.old>>] > 0 ELSE TRUE

ApplyMsg(c, m) ==
    IF m.kind = "Truncate" THEN [k \in Keys |-> IF k[1] = m.rel THEN 0 ELSE c[k]]
    ELSE IF m.kind \notin RowKinds THEN c
    ELSE LET d == IF m.kind = "Insert" THEN c
                  ELSE [c EXCEPT ![<<m.rel, m.old>>] = @ - 1]
         IN  IF m.kind = "Delete" THEN d
             ELSE [d EXCEPT ![<<m.rel, m.new>>] = @ + 1]

RECURSIVE ApplyMsgs(_, _)
ApplyMsgs(c, msgs) ==
    IF msgs = <<>> THEN c
    ELSE ApplyMsgs(ApplyMsg(c, Head(msgs)), Tail(msgs))

RECURSIVE ValidMsgs(_, _)
ValidMsgs(c, msgs) ==
    IF msgs = <<>> THEN TRUE
    ELSE /\ Applicable(c, Head(msgs))
         /\ ValidMsgs(ApplyMsg(c, Head(msgs)), Tail(msgs))

\* contents of the upstream tables as of LSN l (SELECT * at l)
RECURSIVE ContentsOf(_, _)
ContentsOf(w, l) ==
    IF w = <<>> THEN BaseTables
    ELSE LET before == ContentsOf(SubSeq(w, 1, Len(w) - 1), l)
         IN  IF w[Len(w)].lsn > l THEN before
             ELSE ApplyMsgs(before, w[Len(w)].msgs)

\* transaction bodies the upstream may commit
RECURSIVE SeqsUpTo(_, _)
SeqsUpTo(S, n) ==
    IF n = 0 THEN {<<>>}
    ELSE LET shorter == SeqsUpTo(S, n - 1)
         IN  shorter \cup {Append(q, x) : q \in shorter, x \in S}

TxnBodies == SeqsUpTo(RowMsgs, MaxMsgs)
\* everything a transaction of such a publication may put on the stream
\* between its Begin and its Commit
AnyMsgs == AnyRowMsgs \cup {Origin, Type}
           \cup {Relation(o) : o \in WrittenOids}
AnyTxnBodies == SeqsUpTo(AnyMsgs, MaxMsgs)

\* what a replication stream opened at LSN l still has to deliver: the
\* transactions that committed strictly after l, oldest first
HasTxnAfter(w, l) == \E i \in 1..Len(w) : w[i].lsn > l
NextTxnAfter(w, l) ==
    w[CHOOSE i \in 1..Len(w) :
        /\ w[i].lsn > l
        /\ \A j \in 1..(i - 1) : w[j].lsn <= l]

\* pg_logical_slot_peek_binary_changes: one row per Begin, row message and
\* Commit of every transaction the slot still holds; the Commit row carries
\* the transaction's end_lsn. PeekLsns is the lsn column (as a set).
PeekLsns(w, confirmed) == {w[i].lsn : i \in {j \in 1..Len(w) : w[j].lsn > confirmed}}

\* ------------------------------------------------------------ the task
NoSlot == 0

VARIABLES
    \* upstream
    wal,                \* committed transactions, oldest first
    walEnd,             \* current end of WAL on the server
    slot,               \* confirmed_flush_lsn of the configured slot, or NoSlot
    publication,        \* the description the publication has of every table
    \* PostgresTaskInfo and the position of the supervised loop
    start_offset,       \* config.source_resume_upper at startup
    replication_lsn,
    pc,
    \* locals of postgres_replication_loop_inner
    found,              \* result of the pg_replication_slots query
    slot_lsn,
    snapshot_lsn,
    temp_slot,
    copy,               \* rows produce_snapshot has still to yield
    copied,             \* rows produce_snapshot has yielded (enumerate's i)
    statements,         \* what the inner loop's client was sent, in order
    \* locals of the produce_replication generator
    dpc,
    inserts,
    deletes,
    last_commit_lsn,
    observed_wal_end,
    sent_lsn,           \* end_lsn of the last transaction the open stream delivered
    sent_pos,           \* messages of the next transaction already delivered
    feedback_due,       \* last_feedback.elapsed() > FEEDBACK_INTERVAL
    \* RowSender and the channel
    buffered_message,
    out,                \* every InternalMessage the channel accepted, in order
    received,           \* how many of them the consumer has received
    rx_open,            \* the consumer (dataflow_rx) has not been dropped
    resume_lsn,         \* the shared AtomicU64 (ResumeLsn)
    committed,          \* the last call of commit_offsets: its frontier and its result
    \* bookkeeping
    nerr,
    nprobe,
    nhost,              \* host events: commit_offsets calls, the consumer's drop,
                        \* feedback intervals that elapsed, keepalives with reply = 1
    discarded,          \* sends made after the consumer was dropped
    status_updates,     \* every standby_status_update sent, in order
    unanswered,         \* an iteration that needed a status update sent none
    trace,              \* decoded Commits and the events the generators yielded
    rewound,            \* (event, row handed to send_row) pairs of the rewind
    starts,             \* the LSN of every START_REPLICATION issued
    returned,           \* the error the inner loop returned last, or "none"
    lagged,             \* the consume loop was left for the probe with
                        \* last_data_message older than WAL_LAG_GRACE_PERIOD
    \* a function called on its own
    called,             \* the function and its arguments, or NoCall
    result              \* what the call returned

\* what no step of the task changes
given == <<start_offset, called, result>>
upstream == <<wal, walEnd, slot, publication>>
locals == <<found, slot_lsn, snapshot_lsn, temp_slot, copy, copied, statements>>
decoder == <<dpc, inserts, deletes, last_commit_lsn, observed_wal_end,
             sent_lsn, sent_pos, feedback_due>>
history == <<trace, rewound, starts, returned, lagged>>
\* the channel as the task sees it
channel == <<out, received, discarded>>
\* what the host and the consumer own
host == <<rx_open, resume_lsn, committed, nhost>>
feedback == <<status_updates, unanswered>>
vars == <<wal, walEnd, slot, publication, start_offset, replication_lsn, pc, found,
          slot_lsn, snapshot_lsn, temp_slot, copy, copied, statements, dpc, inserts,
          deletes, last_commit_lsn, observed_wal_end, sent_lsn, sent_pos,
          feedback_due, buffered_message, out, received, rx_open, resume_lsn,
          committed, nerr, nprobe, nhost, discarded, status_updates, unanswered,
          trace, rewound, starts, returned, lagged, called, result>>

\* ------------------------------------------------ messages on the channel
RowMessage(output_index, row, lsn, diff) ==
    [output_index |-> output_index, row |-> row, lsn |-> lsn, diff |-> diff]

\* InternalMessage::Value, as send_row_inner builds it
Value(m, end) ==
    [type |-> "Value", output |-> m.output_index, value |-> m.row,
     lsn |-> m.lsn, diff |-> m.diff, end |-> end]
\* InternalMessage::Status(HealthStatusUpdate { StalledWithError, should_halt })
Status(should_halt) == [type |-> "Status", should_halt |-> should_halt]
\* InternalMessage::Err(SourceReaderError)
ErrRecord == [type |-> "Err"]

\* ------------------------------------------------------------- RowSender
\* mutant of send_row: the LSN of the buffered row is not asserted
send_row_unasserted(buf, output_index, row, lsn, diff) ==
    [buf  |-> <<RowMessage(output_index, row, lsn, diff)>>,
     sent |-> IF buf # <<>> THEN <<Value(buf[1], FALSE)>> ELSE <<>>,
     ok   |-> TRUE]

\* The result of a RowSender call: the new buffer, the messages it sent, and
\* whether its assertion held (a failed assertion panics before sending).
send_row(buf, output_index, row, lsn, diff) ==
    LET ok == buf = <<>> \/ buf[1].lsn = lsn
    IN  [buf  |-> IF ok THEN <<RowMessage(output_index, row, lsn, diff)>> ELSE <<>>,
         sent |-> IF buf # <<>> /\ ok THEN <<Value(buf[1], FALSE)>> ELSE <<>>,
         ok   |-> ok]

\* mutant of close_lsn: the assertion is strict
close_lsn_strict(buf, lsn) ==
    LET ok == buf = <<>> \/ buf[1].lsn < lsn
    IN  [buf  |-> <<>>,
         sent |-> IF buf # <<>> /\ ok THEN <<Value(buf[1], TRUE)>> ELSE <<>>,
         ok   |-> ok]

close_lsn(buf, lsn) ==
    LET ok == buf = <<>> \/ buf[1].lsn <= lsn
    IN  [buf  |-> <<>>,
         sent |-> IF buf # <<>> /\ ok THEN <<Value(buf[1], TRUE)>> ELSE <<>>,
         ok   |-> ok]

\* ------------------------------------------------------------ the channel
\* messages the channel holds: accepted and not yet received
Queued == Len(out) - received

\* mutant of Send: a full channel drops the message instead of suspending
\* the sender (try_send)
SendOrDrop(msgs) ==
    LET room == Capacity - Queued
        kept == IF Len(msgs) <= room THEN msgs ELSE SubSeq(msgs, 1, room)
    IN  /\ out' = IF rx_open THEN out \o kept ELSE out
        /\ received' = received
        /\ discarded' = discarded + (IF rx_open THEN Len(msgs) - Len(kept)
                                     ELSE Len(msgs))

\* `let _ = sender.send(message).await` for each of msgs, in order. With the
\* receiver dropped send returns an error at once and the message is lost.
\* With the channel full send suspends until the consumer has received a
\* message; the receives that the sends of msgs have to wait for are part of
\* the step.
Send(msgs) ==
    /\ out' = IF rx_open THEN out \o msgs ELSE out
    /\ received' = IF rx_open /\ Queued + Len(msgs) > Capacity
                   THEN Len(out) + Len(msgs) - Capacity ELSE received
    /\ discarded' = IF rx_open THEN discarded ELSE discarded + Len(msgs)

\* ------------------------------------------------------------ the consumer
Max(a, b) == IF a >= b THEN a ELSE b

\* The consumer's upper capability and last_lsn after it has handled msgs:
\* a Value downgrades the upper capability to lsn + 1 and sets last_lsn, an
\* Err downgrades it to last_lsn + 2, a Status leaves both.
RECURSIVE Handled(_, _)
Handled(reader, msgs) ==
    IF msgs = <<>> THEN reader
    ELSE LET m == Head(msgs)
             next == CASE m.type = "Value" ->
                            [last_lsn |-> m.lsn,
                             upper |-> Max(reader.upper, m.lsn + 1)]
                       [] m.type = "Err" ->
                            [last_lsn |-> reader.last_lsn,
                             upper |-> Max(reader.upper, reader.last_lsn + 2)]
                       [] OTHER -> reader
         IN  Handled(next, Tail(msgs))

\* PostgresSourceReader after the messages received so far
Reader ==
    Handled([last_lsn |-> start_offset, upper |-> start_offset],
            SubSeq(out, 1, received))

\* One iteration of the operator's loop for the message m. A Value sets
\* last_lsn, takes data_capability.delayed(lsn), downgrades the upper
\* capability to lsn + 1 and, with end, the data capability too. An Err takes
\* data_capability.delayed(last_lsn + 1) and downgrades both to last_lsn + 2.
\* A Status goes to the health output. backwards records that a delayed or
\* a downgrade was called with a time below the capability's.
Render(reader, m) ==
    CASE m.type = "Value" ->
           [last_lsn |-> m.lsn,
            data_capability |-> IF m.end THEN m.lsn + 1
                                ELSE reader.data_capability,
            upper_capability |-> m.lsn + 1,
            backwards |-> \/ reader.backwards
                          \/ m.lsn < reader.data_capability
                          \/ m.lsn + 1 < reader.upper_capability]
      [] m.type = "Err" ->
           [last_lsn |-> reader.last_lsn,
            data_capability |-> reader.last_lsn + 2,
            upper_capability |-> reader.last_lsn + 2,
            backwards |-> \/ reader.backwards
                          \/ reader.last_lsn + 1 < reader.data_capability
                          \/ reader.last_lsn + 2 < reader.upper_capability]
      [] OTHER -> reader

RECURSIVE Rendered(_, _)
Rendered(reader, msgs) ==
    IF msgs = <<>> THEN reader
    ELSE Rendered(Render(reader, Head(msgs)), Tail(msgs))

\* PostgresSourceReader and its capabilities after n messages were received:
\* both capabilities start at start_offset
ReaderAfter(n) ==
    Rendered([last_lsn |-> start_offset, data_capability |-> start_offset,
              upper_capability |-> start_offset, backwards |-> FALSE],
             SubSeq(out, 1, n))

\* ------------------------------------------------------- the offset committer
saturating_sub(a, b) == IF a >= b THEN a - b ELSE 0

\* an Antichain<MzOffset> of a totally ordered time: empty or one offset
Antichain(n) == <<n>>
EmptyFrontier == <<>>

\* mutant of commit_offsets: the subtraction does not saturate
commit_offsets_unsaturated(current, frontier) ==
    [resume_lsn |-> IF frontier # EmptyFrontier
                    THEN frontier[1] - 1 ELSE current,
     result |-> "Ok"]

\* PgOffsetCommitter::commit_offsets: the value of resume_lsn after the call
\* and what the call returns
commit_offsets(current, frontier) ==
    [resume_lsn |-> IF frontier # EmptyFrontier
                    THEN saturating_sub(frontier[1], 1) ELSE current,
     result |-> "Ok"]

\* the frontiers the host may commit: none that the consumer has not reached
Frontiers == {EmptyFrontier} \cup {Antichain(n) : n \in 0..Reader.upper}

\* standby_status_update(committed_lsn, committed_lsn, committed_lsn, ts, 0)
standby_status_update(committed_lsn) ==
    [write_lsn |-> committed_lsn, flush_lsn |-> committed_lsn,
     apply_lsn |-> committed_lsn]

\* ------------------------------------------------------- events and trace
Message(lsn, output, row, diff) ==
    [type |-> "Message", lsn |-> lsn, output |-> output, row |-> row, diff |-> diff]
Progress(lsn) ==
    [type |-> "Progress", lsn |-> lsn, output |-> 0, row |-> 0, diff |-> 0]
\* trace entry written when a Commit is decoded (not an event)
Decoded(lsn) ==
    [type |-> "Commit", lsn |-> lsn, output |-> 0, row |-> 0, diff |-> 0]

\* ------------------------------------------------------------- snapshot
RECURSIVE Repeat(_, _)
Repeat(x, n) == IF n <= 0 THEN <<>> ELSE <<x>> \o Repeat(x, n - 1)

RECURSIVE RowsOfTable(_, _, _)
RowsOfTable(c, oid, r) ==
    IF r > MaxRow THEN <<>>
    ELSE Repeat([output |-> source_tables[oid], row |-> r], c[<<oid, r>>])
         \o RowsOfTable(c, oid, r + 1)

\* produce_snapshot: one COPY per source table, in the order of the BTreeMap
\* (ascending oid); every row comes with the table's output index
RECURSIVE produce_snapshot(_, _)
produce_snapshot(c, oids) ==
    IF oids = {} THEN <<>>
    ELSE LET o == CHOOSE x \in oids : \A y \in oids : x <= y
         IN  RowsOfTable(c, o, 1) \o produce_snapshot(c, oids \ {o})

\* ----------------------------------------------------------------- Init
\* no function was called on its own
NoCall == [fn |-> "none"]

Init ==
    /\ wal = <<>>
    /\ walEnd = 1
    /\ \E cfg \in {<<0, NoSlot>>, <<0, 1>>, <<1, 1>>} :
          /\ start_offset = cfg[1]
          /\ slot = cfg[2]
    /\ publication = [o \in PubOids |-> StoredDesc(o)]
    /\ replication_lsn = start_offset
    /\ pc = "start"
    /\ found = NoSlot
    /\ slot_lsn = 0
    /\ snapshot_lsn = 0
    /\ temp_slot = FALSE
    /\ copy = <<>>
    /\ copied = 0
    /\ statements = <<>>
    /\ dpc = "idle"
    /\ inserts = <<>>
    /\ deletes = <<>>
    /\ last_commit_lsn = 0
    /\ observed_wal_end = 0
    /\ sent_lsn = 0
    /\ sent_pos = 0
    /\ feedback_due = FALSE
    /\ buffered_message = <<>>
    /\ out = <<>>
    /\ received = 0
    /\ rx_open = TRUE
    /\ resume_lsn = start_offset
    /\ committed = <<>>
    /\ nerr = 0
    /\ nprobe = 0
    /\ nhost = 0
    /\ discarded = 0
    /\ status_updates = <<>>
    /\ unanswered = FALSE
    /\ trace = <<>>
    /\ rewound = <<>>
    /\ starts = <<>>
    /\ returned = "none"
    /\ lagged = FALSE
    /\ called = NoCall
    /\ result = NoCall

\* ------------------------------------------------------- the run's budget
RECURSIVE RowMessages(_)
RowMessages(w) == IF w = <<>> THEN 0 ELSE Len(Head(w).msgs) + RowMessages(Tail(w))

\* what the run has used of MaxEvents
\* the tables whose description was changed upstream
Altered == {o \in PubOids : publication[o] # StoredDesc(o)}

Spent == RowMessages(wal) + nerr + nprobe + nhost + Cardinality(Altered)

\* ------------------------------------------------------ upstream actions
\* a transaction with one of bodies commits upstream; its Commit ends at the
\* new end of WAL
UpstreamCommits(bodies) ==
    /\ walEnd < MaxLsn
    /\ \E body \in bodies :
          /\ Spent + Len(body) <= MaxEvents
          /\ ValidMsgs(ContentsOf(wal, walEnd), body)
          /\ wal' = Append(wal, [lsn |-> walEnd + 1, msgs |-> body])
    /\ walEnd' = walEnd + 1
    /\ UNCHANGED <<slot, publication, given, replication_lsn, pc, locals, decoder,
                   buffered_message, channel, host, feedback, nerr, nprobe, history>>

\* the tables of the publication have REPLICA IDENTITY FULL
UpstreamCommit == UpstreamCommits(TxnBodies)

\* inserts into and deletes from every table of the publication, the
\* source tables that are not written to later included
SnapshotBodies ==
    SeqsUpTo({Insert(o, r) : o \in PubOids, r \in Rows}
             \cup {Delete(o, r) : o \in PubOids, r \in Rows}, MaxMsgs)
UpstreamFill == UpstreamCommits(SnapshotBodies)

\* some tables of the publication have another replica identity
UpstreamWrite == UpstreamCommits(AnyTxnBodies)

\* what DDL makes of a table: a source table is altered or leaves the
\* publication, another table leaves it
Alterations(o) ==
    IF o \in SourceOids
    THEN {Renamed(StoredDesc(o)), Retyped(StoredDesc(o)),
          Widened(StoredDesc(o)), Missing}
    ELSE {Missing}

\* DDL upstream: a table of the publication is changed or leaves it
AlterTable ==
    /\ Spent < MaxEvents
    /\ \E o \in WrittenOids \ Altered :
          \E d \in Alterations(o) :
              publication' = [publication EXCEPT ![o] = d]
    /\ UNCHANGED <<wal, walEnd, slot, given, replication_lsn, pc, locals,
                   decoder, buffered_message, channel, host, feedback, nerr,
                   nprobe, history>>

\* WAL activity that logical decoding never shows (other databases, vacuum)
UpstreamAdvance ==
    /\ walEnd < MaxLsn
    /\ walEnd' = walEnd + 1
    /\ UNCHANGED <<wal, slot, publication, given, replication_lsn, pc, locals, decoder,
                   buffered_message, channel, host, feedback, nerr, nprobe, history>>

\* ------------------------------------------- the produce_replication state
DecoderState(p, ins, del, lcl, owe, sl, sp, due) ==
    [dpc |-> p, inserts |-> ins, deletes |-> del, last_commit_lsn |-> lcl,
     observed_wal_end |-> owe, sent_lsn |-> sl, sent_pos |-> sp,
     feedback_due |-> due]

\* no generator exists (before produce_replication is called, after it is dropped)
NoDecoder == DecoderState("idle", <<>>, <<>>, 0, 0, 0, 0, FALSE)

\* produce_replication(as_of): empty buffers, last_commit_lsn = observed_wal_end
\* = as_of, last_feedback = Instant::now(), about to connect
NewDecoder(as_of) ==
    DecoderState("connect", <<>>, <<>>, as_of, as_of, 0, 0, FALSE)

SetDecoder(d) ==
    /\ dpc' = d.dpc
    /\ inserts' = d.inserts
    /\ deletes' = d.deletes
    /\ last_commit_lsn' = d.last_commit_lsn
    /\ observed_wal_end' = d.observed_wal_end
    /\ sent_lsn' = d.sent_lsn
    /\ sent_pos' = d.sent_pos
    /\ feedback_due' = d.feedback_due

ThisDecoder ==
    DecoderState(dpc, inserts, deletes, last_commit_lsn, observed_wal_end,
                 sent_lsn, sent_pos, feedback_due)

\* ----------------------------------------------------------- supervisor
\* the message the supervisor sends for the error: the Err record for a
\* Definite error, a Status with should_halt for the others
SupervisorMessage(class) ==
    IF class = "Definite" THEN ErrRecord ELSE Status(class = "Irrecoverable")

\* mutant of SupervisorThen: a Definite error is retried like an Indefinite one
SupervisorThenRetriesDefinite(class) ==
    IF class = "Irrecoverable" THEN "halted" ELSE "start"

\* mutant of SupervisorThen: an Irrecoverable error is retried
SupervisorThenRetriesIrrecoverable(class) ==
    IF class = "Definite" THEN "stopped" ELSE "start"

\* where the supervisor goes after the message: `return` for a Definite
\* error, sleep and the next iteration of its loop for an Indefinite one,
\* future::pending() for an Irrecoverable one
SupervisorThen(class) ==
    CASE class = "Definite" -> "stopped"
      [] class = "Indefinite" -> "start"
      [] OTHER -> "halted"

\* postgres_replication_loop: what the supervisor does with the error the
\* inner loop returned. The inner loop's locals and generators are dropped;
\* task_info (replication_lsn, row_sender) lives on.
Supervise(class) ==
    /\ Send(<<SupervisorMessage(class)>>)
    /\ pc' = SupervisorThen(class)
    /\ returned' = class
    /\ found' = NoSlot
    /\ temp_slot' = FALSE
    /\ copy' = <<>>
    /\ copied' = 0
    /\ statements' = <<>>
    /\ lagged' = FALSE
    /\ SetDecoder(NoDecoder)
    /\ UNCHANGED <<upstream, given, replication_lsn, slot_lsn,
                   snapshot_lsn, buffered_message, host, feedback, nprobe,
                   trace, rewound, starts>>

\* another session creates the configured slot after the task has queried
\* pg_replication_slots and before it has sent CREATE_REPLICATION_SLOT; its
\* confirmed_flush_lsn is the end of WAL
CreateSlotElsewhere ==
    /\ pc = "create"
    /\ found = NoSlot
    /\ slot = NoSlot
    /\ slot' = walEnd
    /\ UNCHANGED <<wal, walEnd, publication, given, replication_lsn, pc,
                   locals, decoder, buffered_message, channel, host, feedback,
                   nerr, nprobe, history>>

\* a failure of the environment: at most MaxErrors of them in a run
Fails == nerr < MaxErrors /\ Spent < MaxEvents /\ nerr' = nerr + 1

\* impl From<E: ErrorExt> for ReplicationError: what `?` makes of an error
FromClasses == {"Definite", "Indefinite"}

\* the SQLSTATE of the error CREATE_REPLICATION_SLOT returns for a name that
\* is taken (duplicate_object), character by character
DuplicateObject == <<"4", "2", "7", "1", "0">>

\* mutant of is_definite: class 3F is not looked at
is_definite_without_3F(code) ==
    /\ Len(code) >= 2
    /\ SubSeq(code, 1, 2) \in {<<"3", "D">>, <<"4", "2">>}

\* impl ErrorExt for DbError: the class is the first two characters of the
\* SQLSTATE; 3D, 3F and 42 are definite
is_definite(code) ==
    /\ Len(code) >= 2
    /\ SubSeq(code, 1, 2) \in {<<"3", "D">>, <<"3", "F">>, <<"4", "2">>}

\* `?` on the error of a statement: From<E: ErrorExt> for ReplicationError
From(code) == IF is_definite(code) THEN "Definite" ELSE "Indefinite"

\* ------------------------------------------------- errors and their class
\* SQLSTATEs: every class over a few characters, and codes too short to
\* have one
ClassChars == {"0", "2", "3", "4", "D", "F"}
SqlStates ==
    {<<a, b, "0", "0", "0">> : a \in ClassChars, b \in ClassChars}
    \cup {DuplicateObject, <<>>, <<"4">>}

\* The errors `?` and the tags are applied to: tokio::time::error::Elapsed,
\* DbError, tokio_postgres::Error and std::io::Error with what source()
\* returns (nothing, an error of another type, or one of the former).
Elapsed == [type |-> "Elapsed"]
DbError(code) == [type |-> "DbError", code |-> code]
NoSource == [type |-> "none"]
OtherSource == [type |-> "other"]
DbErrors == {DbError(c) : c \in SqlStates}
PgError(source) == [type |-> "tokio_postgres", source |-> source]
PgErrors == {PgError(x) : x \in {NoSource, OtherSource} \cup DbErrors}
IoError(source) == [type |-> "io", source |-> source]
IoErrors == {IoError(x) : x \in {NoSource, OtherSource} \cup DbErrors \cup PgErrors}
Errors == {Elapsed} \cup DbErrors \cup PgErrors \cup IoErrors

\* ErrorExt::is_definite of each implementation
ErrIsDefinite(e) ==
    CASE e.type = "Elapsed" -> FALSE
      [] e.type = "DbError" -> is_definite(e.code)
      [] e.type = "tokio_postgres" ->
            IF e.source.type = "DbError" THEN is_definite(e.source.code)
            ELSE FALSE
      [] e.type = "io" ->
            IF e.source.type = "tokio_postgres"
            THEN IF e.source.source.type = "DbError"
                 THEN is_definite(e.source.source.code) ELSE FALSE
            ELSE IF e.source.type = "DbError" THEN is_definite(e.source.code)
            ELSE FALSE
      [] OTHER -> FALSE

\* what an Err(e) becomes: `?` goes through From, a tag of ResultExt names
\* the class
Tags == {"?", "err_definite", "err_indefinite", "err_irrecoverable"}
Classify(e, tag) ==
    CASE tag = "err_definite" -> "Definite"
      [] tag = "err_indefinite" -> "Indefinite"
      [] tag = "err_irrecoverable" -> "Irrecoverable"
      [] OTHER -> IF ErrIsDefinite(e) THEN "Definite" ELSE "Indefinite"

\* the snapshot and rewind loops return a Definite error as it is and
\* anything else as Irrecoverable
Escalate(class) == IF class = "Definite" THEN "Definite" ELSE "Irrecoverable"

\* ------------------------------------------------- cold start: the snapshot
\* publication_info, determine_table_compatibility, connect_replication, the
\* pg_replication_slots query and BEGIN
\* mutant of ColdStart: the snapshot is taken again after every error
ColdStartAfterError == replication_lsn = 0 \/ returned # "none"

\* `if task_info.replication_lsn == PgLsn::from(0)`: nothing was produced
\* yet and the inner loop starts with the snapshot
ColdStart == replication_lsn = 0

\* mutant of ColdStartStatements: the transaction is opened before the check
BeginThenCheck == <<"BEGIN", "SELECT confirmed_flush_lsn">>

\* what the client is sent before the slot is created: the query of
\* pg_replication_slots, then BEGIN READ ONLY ISOLATION LEVEL REPEATABLE READ
ColdStartStatements == <<"SELECT confirmed_flush_lsn", "BEGIN">>

CheckSlot ==
    /\ pc = "start"
    /\ ColdStart
    /\ \/ /\ determine_table_compatibility(publication) = "Definite"
          /\ Supervise("Definite")
          /\ UNCHANGED nerr
       \/ /\ determine_table_compatibility(publication) = "none"
          /\ found' = slot
          /\ statements' = ColdStartStatements
          /\ pc' = "create"
          /\ UNCHANGED <<upstream, given, replication_lsn, slot_lsn,
                         snapshot_lsn, temp_slot, copy, copied, decoder,
                         buffered_message, channel, host, feedback, nerr, nprobe, history>>
       \/ \E class \in FromClasses : Fails /\ Supervise(class)

\* CREATE_REPLICATION_SLOT ... USE_SNAPSHOT: a temporary slot when the
\* configured one exists, the configured one otherwise. The consistent point
\* of a slot created now is the current end of WAL, and the transaction then
\* reads the tables as of that point.
CreateSlot ==
    /\ pc = "create"
    /\ \/ /\ found # NoSlot
          /\ slot_lsn' = found
          /\ snapshot_lsn' = walEnd
          /\ temp_slot' = TRUE
          /\ statements' = Append(statements, "CREATE_REPLICATION_SLOT TEMPORARY")
          /\ slot' = slot
          /\ copy' = produce_snapshot(ContentsOf(wal, walEnd), SourceOids)
          /\ copied' = 0
          /\ pc' = "copy"
          /\ UNCHANGED <<wal, walEnd, publication, given, replication_lsn, found,
                         decoder, buffered_message, channel, host, feedback, nerr, nprobe, history>>
       \/ /\ found = NoSlot
          /\ slot = NoSlot
          /\ slot' = walEnd
          /\ slot_lsn' = walEnd
          /\ snapshot_lsn' = walEnd
          /\ temp_slot' = FALSE
          /\ statements' = Append(statements, "CREATE_REPLICATION_SLOT")
          /\ copy' = produce_snapshot(ContentsOf(wal, walEnd), SourceOids)
          /\ copied' = 0
          /\ pc' = "copy"
          /\ UNCHANGED <<wal, walEnd, publication, given, replication_lsn, found,
                         decoder, buffered_message, channel, host, feedback, nerr, nprobe, history>>
       \/ \* the name was taken after the query: the statement fails
          /\ found = NoSlot
          /\ slot # NoSlot
          /\ Supervise(From(DuplicateObject))
          /\ UNCHANGED nerr
       \/ \E class \in FromClasses : Fails /\ Supervise(class)

\* mutant of SnapshotRow: the row is stamped with the LSN of the snapshot
SnapshotRowAtSnapshotLsn(r) == RowMessage(r.output, r.row, snapshot_lsn, 1)

\* the row handed to the coalescer for a snapshot row
SnapshotRow(r) == RowMessage(r.output, r.row, slot_lsn, 1)

\* one Ok((output, row)) of the snapshot stream
CopyRow ==
    /\ pc = "copy"
    /\ copy # <<>>
    /\ LET m == SnapshotRow(Head(copy))
           fx == send_row(buffered_message, m.output_index, m.row, m.lsn, m.diff)
       IN  /\ buffered_message' = fx.buf
           /\ Send(fx.sent)
           /\ pc' = IF fx.ok THEN "copy" ELSE "panicked"
    /\ copy' = Tail(copy)
    /\ copied' = copied + 1
    /\ UNCHANGED <<upstream, given, replication_lsn, found, slot_lsn,
                   snapshot_lsn, temp_slot, statements, decoder, host,
                   feedback, nerr, nprobe, history>>

\* one Err of the snapshot stream: the read timeout and an error of COPY
\* or of a read pass through `?`, a row that does not parse or cast is
\* tagged err_definite
CopyFailures ==
    {[err |-> Elapsed, tag |-> "?"],
     [err |-> PgError(NoSource), tag |-> "?"],
     [err |-> OtherSource, tag |-> "err_definite"]}
CopyError ==
    /\ pc = "copy"
    /\ \E f \in CopyFailures :
          Fails /\ Supervise(Escalate(Classify(f.err, f.tag)))

\* mutant of NeedsRewind: the rewind is entered with slot_lsn = snapshot_lsn too
NeedsRewindWhenEqual == slot_lsn <= snapshot_lsn

\* if slot_lsn < snapshot_lsn { ... rewind ... }
NeedsRewind == slot_lsn < snapshot_lsn

\* what the client is sent once the snapshot stream is exhausted
EndOfSnapshot ==
    (IF temp_slot THEN <<"DROP_REPLICATION_SLOT">> ELSE <<>>) \o <<"COMMIT">>

\* the snapshot stream is exhausted: DROP_REPLICATION_SLOT of the temporary
\* slot (its result is ignored), COMMIT, then either the rewind is started or
\* the snapshot is sealed and streaming is started
SnapshotDone ==
    /\ pc = "copy"
    /\ copy = <<>>
    /\ \/ /\ NeedsRewind
          /\ pc' = "rewind"
          /\ statements' = statements \o EndOfSnapshot
          /\ SetDecoder(NewDecoder(slot_lsn))
          /\ UNCHANGED <<upstream, given, replication_lsn, found, slot_lsn,
                         snapshot_lsn, temp_slot, copy, copied,
                         buffered_message, channel, host, feedback, nerr, nprobe, history>>
       \/ /\ ~NeedsRewind
          /\ LET fx == close_lsn(buffered_message, slot_lsn)
             IN  /\ buffered_message' = fx.buf
                 /\ Send(fx.sent)
                 /\ pc' = IF fx.ok /\ slot_lsn <= snapshot_lsn THEN "stream"
                          ELSE "panicked"
          /\ replication_lsn' = slot_lsn
          /\ statements' = statements \o EndOfSnapshot
          /\ SetDecoder(NewDecoder(slot_lsn))
          /\ UNCHANGED <<upstream, given, found, slot_lsn, snapshot_lsn,
                         temp_slot, copy, copied, host, feedback, nerr,
                         nprobe, history>>
       \/ \E class \in FromClasses : Fails /\ Supervise(class)

\* replication_lsn # 0: the snapshot is skipped
WarmStart ==
    /\ pc = "start"
    /\ ~ColdStart
    /\ pc' = "stream"
    /\ SetDecoder(NewDecoder(replication_lsn))
    /\ UNCHANGED <<upstream, given, replication_lsn, locals,
                   buffered_message, channel, host, feedback, nerr, nprobe, history>>

\* --------------------------------------------- the consumers of the events
\* mutant of RewindRow: the diff is not negated
RewindRowNotNegated(e) == RowMessage(e.output, e.row, slot_lsn, e.diff)

\* the row the rewind loop hands to the coalescer for a decoded Message
RewindRow(e) == RowMessage(e.output, e.row, slot_lsn, -e.diff)

\* the row the streaming loop hands to the coalescer for a decoded Message
StreamRow(e) == RowMessage(e.output, e.row, e.lsn, e.diff)

\* the cursor the streaming loop keeps for a Progress event
CursorOf(lsn) == lsn - 1

\* The state of the loop that polls the generator: where it is (rewind,
\* stream, panicked), the coalescer's buffer, the messages sent so far, the
\* cursor, and the rows the rewind handed to send_row.
Polling ==
    [mode |-> pc, buf |-> buffered_message, sent |-> <<>>,
     cursor |-> replication_lsn, handed |-> <<>>]

After(st, fx) ==
    [st EXCEPT !.buf = fx.buf, !.sent = st.sent \o fx.sent,
               !.mode = IF fx.ok THEN st.mode ELSE "panicked"]

\* the body of the rewind loop for one event
RewindHandler(st, e) ==
    IF e.type = "Message"
    THEN IF e.lsn <= snapshot_lsn
         THEN LET m == RewindRow(e)
                  fx == send_row(st.buf, m.output_index, m.row, m.lsn, m.diff)
              IN  [After(st, fx) EXCEPT
                     !.handed = st.handed \o <<[event |-> e, row |-> m]>>]
         ELSE st
    ELSE IF e.lsn > snapshot_lsn
         THEN \* close_lsn and break; after the loop close_lsn once more,
              \* replication_lsn = slot_lsn, and the streaming loop is entered
              LET first == After(st, close_lsn(st.buf, slot_lsn))
                  second == After(first, close_lsn(first.buf, slot_lsn))
              IN  [second EXCEPT
                     !.cursor = slot_lsn,
                     !.mode = IF second.mode = "panicked" THEN "panicked"
                              ELSE "stream"]
         ELSE st

\* the body of the streaming loop for one event
StreamHandler(st, e) ==
    IF e.type = "Message"
    THEN LET m == StreamRow(e)
         IN  After(st, send_row(st.buf, m.output_index, m.row, m.lsn, m.diff))
    ELSE [After(st, close_lsn(st.buf, e.lsn)) EXCEPT !.cursor = CursorOf(e.lsn)]

\* the polling loop run over the events the generator yields one after the
\* other; the generator is not polled again once the loop is left
RECURSIVE Poll(_, _)
Poll(st, events) ==
    IF events = <<>> \/ st.mode # pc THEN st
    ELSE Poll(IF pc = "rewind" THEN RewindHandler(st, Head(events))
              ELSE StreamHandler(st, Head(events)),
              Tail(events))

\* The generator yields `events` without suspending on anything else and is
\* left in state d; the loop that polls it runs its body for each of them.
Yield(events, d) ==
    LET st == Poll(Polling, events)
    IN  /\ buffered_message' = st.buf
        /\ Send(st.sent)
        /\ replication_lsn' = st.cursor
        /\ rewound' = rewound \o st.handed
        /\ pc' = st.mode
        /\ SetDecoder(IF st.mode = pc THEN d
                      ELSE IF st.mode = "stream" THEN NewDecoder(slot_lsn)
                      ELSE NoDecoder)

\* The generator yields an error and ends. The rewind loop escalates it, the
\* streaming loop returns it with `?`.
YieldErr(class) ==
    Supervise(IF pc = "rewind" THEN Escalate(class) ELSE class)

\* --------------------------------------------------- produce_replication
Decoding == pc \in {"rewind", "stream"}

\* the end of an iteration of the inner loop: the status update is sent when
\* the feedback interval has elapsed or the keepalive asked for a reply, with
\* the value of resume_lsn loaded then, and last_feedback is reset
StatusUpdate(needs_status_update) ==
    /\ status_updates' =
          IF needs_status_update
          THEN Append(status_updates, standby_status_update(resume_lsn))
          ELSE status_updates
    /\ feedback_due' = IF needs_status_update THEN FALSE ELSE feedback_due
    /\ unanswered' = unanswered

\* the keepalive's iteration leaves the inner loop with `break`, which skips
\* the status update: last_feedback is not reset and the request of a
\* keepalive with reply = 1 is forgotten with needs_status_update
NoStatusUpdate(needs_status_update) ==
    /\ status_updates' = status_updates
    /\ feedback_due' = feedback_due
    /\ unanswered' = (unanswered \/ needs_status_update)

\* FEEDBACK_INTERVAL passes since last_feedback
FeedbackTick ==
    /\ pc \in {"rewind", "stream"}
    /\ dpc # "idle"
    /\ ~feedback_due
    /\ Spent < MaxEvents
    /\ feedback_due' = TRUE
    /\ nhost' = nhost + 1
    /\ UNCHANGED <<upstream, given, replication_lsn, pc, locals, dpc,
                   inserts, deletes, last_commit_lsn, observed_wal_end,
                   sent_lsn, sent_pos, buffered_message, channel, rx_open,
                   resume_lsn, committed, feedback, nerr, nprobe, history>>

\* connect_replication and START_REPLICATION SLOT ... LOGICAL last_commit_lsn
Connect ==
    /\ Decoding
    /\ dpc = "connect"
    /\ \/ /\ dpc' = "streaming"
          /\ sent_lsn' = last_commit_lsn
          /\ sent_pos' = 0
          /\ starts' = Append(starts, last_commit_lsn)
          /\ UNCHANGED <<upstream, given, replication_lsn, pc, locals,
                         inserts, deletes, last_commit_lsn, observed_wal_end,
                         feedback_due, buffered_message, channel, host,
                         feedback, nerr, nprobe, trace, rewound, returned,
                         lagged>>
       \/ Fails /\ YieldErr("Indefinite")

\* the transaction the open stream is delivering
Streaming == Decoding /\ dpc = "streaming" /\ HasTxnAfter(wal, sent_lsn)
CurrentTxn == NextTxnAfter(wal, sent_lsn)

\* mutant of BeginError: only the inserts buffer is looked at
BeginErrorOnlyInserts == IF inserts # <<>> THEN "Definite" ELSE "none"

\* what the Begin arm returns: `if !inserts.is_empty() || !deletes.is_empty()`
\* the Definite error "got BEGIN statement after uncommitted data"
BeginError ==
    IF inserts # <<>> \/ deletes # <<>> THEN "Definite" ELSE "none"

\* XLogData(Begin)
RecvBegin ==
    /\ Streaming
    /\ sent_pos = 0
    /\ \/ /\ BeginError = "none"
          /\ sent_pos' = 1
          /\ StatusUpdate(feedback_due)
          /\ UNCHANGED <<upstream, given, replication_lsn, pc, locals,
                         dpc, inserts, deletes, last_commit_lsn,
                         observed_wal_end, sent_lsn, buffered_message, channel,
                         host, nerr, nprobe, history>>
       \/ /\ BeginError = "Definite"
          /\ YieldErr("Definite")
          /\ UNCHANGED nerr

\* what a row message adds to the two buffers
BufferedInserts(m) ==
    IF m.rel \in DOMAIN source_tables /\ m.kind \in {"Insert", "Update"}
    THEN <<[output |-> source_tables[m.rel], row |-> m.new]>> ELSE <<>>

\* mutant of BufferedDeletes: an Update buffers no delete of the old row
BufferedDeletesOnlyDelete(m) ==
    IF m.rel \in DOMAIN source_tables /\ m.kind = "Delete"
    THEN <<[output |-> source_tables[m.rel], row |-> old_tuple(m)]>> ELSE <<>>

BufferedDeletes(m) ==
    IF m.rel \in DOMAIN source_tables /\ m.kind \in {"Update", "Delete"}
    THEN <<[output |-> source_tables[m.rel], row |-> old_tuple(m)]>> ELSE <<>>

\* the message the open stream delivers next is a row message or a Truncate
NextMessage == CurrentTxn.msgs[sent_pos]
HasNextMessage == Streaming /\ sent_pos \in 1..Len(CurrentTxn.msgs)

\* mutant of RowError: a Delete without its old tuple is taken as it is
RowErrorOnlyUpdate(m) ==
    IF /\ m.rel \in DOMAIN source_tables
       /\ m.kind = "Update"
       /\ old_tuple(m) = NoTuple
    THEN "Definite" ELSE "none"

\* what the Update and the Delete arm return before they touch a buffer:
\* old_tuple().ok_or_else(err).err_definite()?
RowError(m) ==
    IF /\ m.rel \in DOMAIN source_tables
       /\ m.kind \in {"Update", "Delete"}
       /\ old_tuple(m) = NoTuple
    THEN "Definite" ELSE "none"

\* mutant of Arm: Origin and Type messages are not among the ignored ones
ArmIgnoresOnlyRows(m) ==
    IF m.kind \in RowKinds /\ m.rel \in DOMAIN source_tables THEN "row"
    ELSE IF m.kind = "Relation" THEN "relation"
    ELSE IF m.kind \in RowKinds THEN "ignored"
    ELSE IF m.kind = "Truncate" THEN "truncate"
    ELSE "unexpected"

\* the arm of `match xlog_data.data()` that takes a message sent between
\* Begin and Commit: the arms are tried in the order of the source
Arm(m) ==
    IF m.kind \in RowKinds /\ m.rel \in DOMAIN source_tables THEN "row"
    ELSE IF m.kind = "Relation" THEN "relation"
    ELSE IF m.kind \in RowKinds \cup {"Origin", "Type"} THEN "ignored"
    ELSE IF m.kind = "Truncate" THEN "truncate"
    ELSE "unexpected"

\* XLogData(Insert | Update | Delete) of a source table
RecvRow ==
    /\ HasNextMessage
    /\ NextMessage.kind \in RowKinds
    /\ NextMessage.rel \in DOMAIN source_tables
    /\ IF RowError(NextMessage) = "none"
       THEN /\ inserts' = inserts \o BufferedInserts(NextMessage)
            /\ deletes' = deletes \o BufferedDeletes(NextMessage)
            /\ sent_pos' = sent_pos + 1
            /\ StatusUpdate(feedback_due)
            /\ UNCHANGED <<upstream, given, replication_lsn, pc, locals,
                           dpc, last_commit_lsn, observed_wal_end, sent_lsn,
                           buffered_message, channel, host, nerr, nprobe,
                           history>>
       ELSE YieldErr("Definite") /\ UNCHANGED nerr

\* what the Relation arm returns once it has the current description of the
\* table: nothing for a table outside the source table map, and for a source
\* table the result of the check against that description
RelationError(m) ==
    IF m.rel \in DOMAIN source_tables
    THEN TableError(m.rel, publication[m.rel]) ELSE "none"

\* XLogData(Relation): for a source table publication_info is fetched again
\* (a query that can fail) and the stored description is checked against it
RecvRelation ==
    /\ HasNextMessage
    /\ NextMessage.kind = "Relation"
    /\ \/ /\ RelationError(NextMessage) = "none"
          /\ sent_pos' = sent_pos + 1
          /\ StatusUpdate(feedback_due)
          /\ UNCHANGED <<upstream, given, replication_lsn, pc, locals,
                         dpc, inserts, deletes, last_commit_lsn,
                         observed_wal_end, sent_lsn, buffered_message,
                         channel, host, nerr, nprobe, history>>
       \/ /\ RelationError(NextMessage) = "Definite"
          /\ YieldErr("Definite")
          /\ UNCHANGED nerr
       \/ /\ NextMessage.rel \in DOMAIN source_tables
          /\ Fails
          /\ YieldErr("Indefinite")

\* XLogData(Insert | Update | Delete) of a table outside the source table
\* map, XLogData(Origin | Type): metrics.ignored is incremented and nothing
\* else happens; a message that no arm names gets the Definite error
\* "unexpected logical replication message"
RecvIgnored ==
    /\ HasNextMessage
    /\ \/ NextMessage.kind \in RowKinds /\ NextMessage.rel \notin DOMAIN source_tables
       \/ NextMessage.kind \in {"Origin", "Type"}
    /\ IF Arm(NextMessage) = "ignored"
       THEN /\ sent_pos' = sent_pos + 1
            /\ StatusUpdate(feedback_due)
            /\ UNCHANGED <<upstream, given, replication_lsn, pc, locals,
                           dpc, inserts, deletes, last_commit_lsn,
                           observed_wal_end, sent_lsn, buffered_message,
                           channel, host, nerr, nprobe, history>>
       ELSE YieldErr("Definite") /\ UNCHANGED nerr

\* mutant of TruncateError: a Truncate of tables outside the source table map
\* is ignored like the row messages of such tables
TruncateErrorOnlySourceTables(m) ==
    IF m.rel \in DOMAIN source_tables THEN "Definite" ELSE "Ignored"

\* what the Truncate arm returns: Definite, whatever the relations are (the
\* source tables among them only make the text of the error)
TruncateError(m) == "Definite"

\* XLogData(Truncate)
RecvTruncate ==
    /\ HasNextMessage
    /\ NextMessage.kind = "Truncate"
    /\ IF TruncateError(NextMessage) = "Definite"
       THEN YieldErr("Definite") /\ UNCHANGED nerr
       ELSE /\ sent_pos' = sent_pos + 1
            /\ StatusUpdate(feedback_due)
            /\ UNCHANGED <<upstream, given, replication_lsn, pc, locals,
                           dpc, inserts, deletes, last_commit_lsn,
                           observed_wal_end, sent_lsn, buffered_message,
                           channel, host, nerr, nprobe, history>>

\* the frontier announced after a transaction or a fast-forward
FrontierOf(lsn) == lsn + 1

RECURSIVE Messages(_, _, _)
Messages(buffer, lsn, diff) ==
    IF buffer = <<>> THEN <<>>
    ELSE <<Message(lsn, Head(buffer).output, Head(buffer).row, diff)>>
         \o Messages(Tail(buffer), lsn, diff)

\* mutant of CommitEvents: the inserts are drained before the deletes
CommitEventsInsertsFirst(end_lsn) ==
    Messages(inserts, end_lsn, 1) \o Messages(deletes, end_lsn, -1)
    \o <<Progress(FrontierOf(end_lsn))>>

\* mutant of CommitEvents: a transaction without rows yields no Progress
CommitEventsOnlyWithRows(end_lsn) ==
    IF inserts = <<>> /\ deletes = <<>> THEN <<>>
    ELSE Messages(deletes, end_lsn, -1) \o Messages(inserts, end_lsn, 1)
         \o <<Progress(FrontierOf(end_lsn))>>

\* mutant of CommitEvents: the rows of the transaction without the Progress
CommitEventsWithoutProgress(end_lsn) ==
    Messages(deletes, end_lsn, -1) \o Messages(inserts, end_lsn, 1)

\* the events the Commit arm yields: deletes.drain(..) with -1, then
\* inserts.drain(..) with +1, all at the Commit's end_lsn, then Progress
CommitEvents(end_lsn) ==
    Messages(deletes, end_lsn, -1) \o Messages(inserts, end_lsn, 1)
    \o <<Progress(FrontierOf(end_lsn))>>

\* XLogData(Commit): last_commit_lsn is set, the buffers are drained into
\* events and Progress is yielded; a generator that is polled again after
\* its last yield reaches the status update
RecvCommit ==
    /\ Streaming
    /\ sent_pos = Len(CurrentTxn.msgs) + 1
    /\ LET end_lsn == CurrentTxn.lsn
           polled_again == Poll(Polling, CommitEvents(end_lsn)).mode = pc
           needs_status_update == polled_again /\ feedback_due
       IN  /\ Yield(CommitEvents(end_lsn),
                    [ThisDecoder EXCEPT !.last_commit_lsn = end_lsn,
                                        !.inserts = <<>>, !.deletes = <<>>,
                                        !.sent_lsn = end_lsn, !.sent_pos = 0,
                                        !.feedback_due =
                                            feedback_due /\ ~needs_status_update])
           /\ status_updates' =
                 IF needs_status_update
                 THEN Append(status_updates, standby_status_update(resume_lsn))
                 ELSE status_updates
           /\ unanswered' = unanswered
           /\ trace' = trace \o <<Decoded(end_lsn)>> \o CommitEvents(end_lsn)
    /\ UNCHANGED <<upstream, given, locals, host, nerr, nprobe, starts,
                   returned, lagged>>

\* PrimaryKeepAlive: wal_end is the current end of WAL on the server and
\* reply = 1 asks for a status update; the stream is left for the probe when
\* the last data message is older than WAL_LAG_GRACE_PERIOD (any amount of
\* time may have passed)
RecvKeepAlive ==
    /\ Decoding
    /\ dpc = "streaming"
    /\ observed_wal_end' = walEnd
    /\ \E reply \in {0, 1} :
          LET needs_status_update == feedback_due \/ reply = 1
          IN  /\ IF reply = 1
                 THEN Spent < MaxEvents /\ nhost' = nhost + 1
                 ELSE nhost' = nhost
              /\ \/ /\ dpc' = "streaming"
                    /\ StatusUpdate(needs_status_update)
                    /\ UNCHANGED <<nprobe, lagged>>
                 \/ /\ nprobe < MaxProbes /\ Spent + reply < MaxEvents
                    /\ nprobe' = nprobe + 1
                    /\ dpc' = "probe"
                    /\ lagged' = TRUE
                    /\ NoStatusUpdate(needs_status_update)
    /\ UNCHANGED <<upstream, given, replication_lsn, pc, locals,
                   inserts, deletes, last_commit_lsn, sent_lsn, sent_pos,
                   buffered_message, channel, rx_open, resume_lsn, committed,
                   nerr, trace, rewound, starts, returned>>

\* the stream returns None: the server ended it, and nothing can be sent on
\* it any more; the last data message may be older than
\* WAL_LAG_GRACE_PERIOD or not, the arm does not look
StreamEnd ==
    /\ Decoding
    /\ dpc = "streaming"
    /\ nprobe < MaxProbes /\ Spent < MaxEvents
    /\ nprobe' = nprobe + 1
    /\ dpc' = "probe"
    /\ lagged' \in BOOLEAN
    /\ UNCHANGED <<upstream, given, replication_lsn, pc, locals,
                   inserts, deletes, last_commit_lsn, observed_wal_end,
                   sent_lsn, sent_pos, feedback_due, buffered_message, channel,
                   host, feedback, nerr, trace, rewound, starts, returned>>

\* the stream returns Some(Err(err)), or standby_status_update fails
StreamError ==
    /\ Decoding
    /\ dpc = "streaming"
    /\ \E class \in FromClasses : Fails /\ YieldErr(class)

\* the number of peeked changes that lie after last_commit_lsn
Changes == Cardinality({l \in PeekLsns(wal, slot) : l > last_commit_lsn})

\* mutant of FastForwardTo: the probe never moves last_commit_lsn
FastForwardToLastCommit == last_commit_lsn

\* where the probe moves last_commit_lsn when it found no change
FastForwardTo == observed_wal_end

\* connect, pg_logical_slot_peek_binary_changes, and the fast-forward
Probe ==
    /\ Decoding
    /\ dpc = "probe"
    /\ \/ /\ Changes = 0
          /\ Yield(<<Progress(FrontierOf(FastForwardTo))>>,
                   [ThisDecoder EXCEPT !.dpc = "connect",
                                       !.last_commit_lsn = FastForwardTo])
          /\ trace' = Append(trace, Progress(FrontierOf(FastForwardTo)))
          /\ lagged' = FALSE
          /\ UNCHANGED <<upstream, given, locals, host, feedback, nerr,
                         nprobe, starts, returned>>
       \/ /\ Changes # 0
          /\ dpc' = "connect"
          /\ lagged' = FALSE
          /\ UNCHANGED <<upstream, given, replication_lsn, pc, locals,
                         inserts, deletes, last_commit_lsn, observed_wal_end,
                         sent_lsn, sent_pos, feedback_due, buffered_message,
                         channel, host, feedback, nerr, nprobe, trace,
                         rewound, starts, returned>>
       \/ Fails /\ YieldErr("Indefinite")

\* ------------------------------------------------- the host and the consumer
\* one iteration of the operator's loop: reader.receiver_stream.recv()
Receive ==
    /\ rx_open
    /\ received < Len(out)
    /\ received' = received + 1
    /\ UNCHANGED <<upstream, given, replication_lsn, pc, locals,
                   decoder, buffered_message, out, discarded, host, feedback,
                   nerr, nprobe, history>>

\* the host calls commit_offsets with a frontier of resume_uppers
CommitOffsets ==
    /\ rx_open
    /\ Spent < MaxEvents
    /\ \E frontier \in Frontiers :
          LET call == commit_offsets(resume_lsn, frontier)
          IN  /\ resume_lsn' = call.resume_lsn
              /\ committed' = <<[frontier |-> frontier,
                                 result |-> call.result]>>
    /\ nhost' = nhost + 1
    /\ UNCHANGED <<upstream, given, replication_lsn, pc, locals,
                   decoder, buffered_message, channel, rx_open, feedback, nerr,
                   nprobe, history>>

\* the operator is dropped and with it the receiving end of the channel and
\* the offset committer
DropConsumer ==
    /\ rx_open
    /\ Spent < MaxEvents
    /\ rx_open' = FALSE
    /\ nhost' = nhost + 1
    /\ UNCHANGED <<upstream, given, replication_lsn, pc, locals,
                   decoder, buffered_message, channel, resume_lsn, committed,
                   feedback, nerr, nprobe, history>>

\* ----------------------------------------------- the tuples of a row message
\* TupleData: Null, UnchangedToast, Text(bytes)
TupleNull == [t |-> "Null", b |-> ""]
UnchangedToast == [t |-> "UnchangedToast", b |-> ""]
Text(b) == [t |-> "Text", b |-> b]

\* the bytes of a Text field: two numbers, a word, and bytes that are not
\* UTF-8
NotUtf8 == "not UTF-8"
Bytes == {"1", "2", "x", NotUtf8}
Fields == {TupleNull, UnchangedToast} \cup {Text(b) : b \in Bytes}

RECURSIVE TuplesOf(_)
TuplesOf(n) ==
    IF n = 0 THEN {<<>>}
    ELSE {Append(t, f) : t \in TuplesOf(n - 1), f \in Fields}

\* Datum::Null and Datum::String
NullDatum == [d |-> "Null", s |-> ""]
StringDatum(s) == [d |-> "String", s |-> s]

\* datums_from_tuple: the first len fields as datums, in order; it bails at
\* the first UnchangedToast and at the first Text that is not UTF-8
RECURSIVE datums_from_tuple(_, _)
datums_from_tuple(len, tuple_data) ==
    IF len = 0 \/ tuple_data = <<>> THEN [ok |-> TRUE, datums |-> <<>>]
    ELSE LET val == Head(tuple_data)
             rest == datums_from_tuple(len - 1, Tail(tuple_data))
         IN  IF val.t = "UnchangedToast" \/ (val.t = "Text" /\ val.b = NotUtf8)
             THEN [ok |-> FALSE, datums |-> <<>>]
             ELSE IF ~rest.ok THEN rest
             ELSE [ok |-> TRUE,
                   datums |-> <<IF val.t = "Null" THEN NullDatum
                                ELSE StringDatum(val.b)>> \o rest.datums]

\* a column cast of the table (text to int4): a null stays null, the text of
\* a number becomes the number, any other text is an error
NullValue == [v |-> "Null", n |-> 0]
IntValue(n) == [v |-> "Int", n |-> n]
cast(datum) ==
    IF datum.d = "Null" THEN [ok |-> TRUE, value |-> NullValue]
    ELSE IF datum.s = "1" THEN [ok |-> TRUE, value |-> IntValue(1)]
    ELSE IF datum.s = "2" THEN [ok |-> TRUE, value |-> IntValue(2)]
    ELSE [ok |-> FALSE, value |-> NullValue]

\* cast_row: every column cast evaluated on the datums, in order
RECURSIVE cast_row(_)
cast_row(datums) ==
    IF datums = <<>> THEN [ok |-> TRUE, row |-> <<>>]
    ELSE LET first == cast(Head(datums))
             rest == cast_row(Tail(datums))
         IN  IF first.ok /\ rest.ok
             THEN [ok |-> TRUE, row |-> <<first.value>> \o rest.row]
             ELSE [ok |-> FALSE, row |-> <<>>]

\* datums_from_tuple(..).err_definite()? and cast_row(..).err_definite()?
RowOfTuple(tuple_data) ==
    LET datums == datums_from_tuple(Columns, tuple_data)
    IN  IF datums.ok THEN cast_row(datums.datums)
        ELSE [ok |-> FALSE, row |-> <<>>]

ShorterLen(a, b) == IF Len(a) <= Len(b) THEN Len(a) ELSE Len(b)

\* mutant of BackFill: a new tuple with an UnchangedToast field is replaced
\* by the old tuple as a whole
BackFillWhole(new, old) ==
    IF \E i \in 1..ShorterLen(new, old) : new[i] = UnchangedToast
    THEN SubSeq(old, 1, ShorterLen(new, old))
    ELSE SubSeq(new, 1, ShorterLen(new, old))

\* new_tuple.iter().zip(old_tuple.iter()).map(..): an UnchangedToast field
\* of the new tuple is replaced by the old tuple's field at its position
BackFill(new, old) ==
    [i \in 1..ShorterLen(new, old) |->
        IF new[i] = UnchangedToast THEN old[i] ELSE new[i]]

\* a row message with its tuples; has_old is old_tuple().is_some()
TupleMsg(kind, has_old, old, new) ==
    [kind |-> kind, has_old |-> has_old, old |-> old, new |-> new]

TupleMsgs ==
    {TupleMsg("Insert", FALSE, <<>>, new) : new \in TuplesOf(Columns)}
    \cup {TupleMsg("Delete", TRUE, old, <<>>) : old \in TuplesOf(Columns)}
    \cup {TupleMsg("Delete", FALSE, <<>>, <<>>)}
    \cup {TupleMsg("Update", TRUE, t[1], t[2]) :
              t \in TuplesOf(Columns) \X TuplesOf(Columns)}
    \cup {TupleMsg("Update", FALSE, <<>>, new) : new \in TuplesOf(Columns)}

\* what an arm did when it is left: the error it returned, if any, and the
\* rows it pushed to the deletes and to the inserts buffer
ArmResult(error, pushed_deletes, pushed_inserts) ==
    [fn |-> "decode", error |-> error, deletes |-> pushed_deletes,
     inserts |-> pushed_inserts]

\* the Insert, Update and Delete arms for a message of a source table
decode(m) ==
    LET old_row == RowOfTuple(m.old)
        new_row == RowOfTuple(IF m.kind = "Update" THEN BackFill(m.new, m.old)
                              ELSE m.new)
    IN  IF m.kind = "Insert"
        THEN IF new_row.ok THEN ArmResult("none", <<>>, <<new_row.row>>)
             ELSE ArmResult("Definite", <<>>, <<>>)
        ELSE IF ~m.has_old \/ ~old_row.ok THEN ArmResult("Definite", <<>>, <<>>)
        ELSE IF m.kind = "Delete" THEN ArmResult("none", <<old_row.row>>, <<>>)
        ELSE IF new_row.ok
             THEN ArmResult("none", <<old_row.row>>, <<new_row.row>>)
             ELSE ArmResult("Definite", <<old_row.row>>, <<>>)

\* an arm of the decoder run on one message
CallDecode ==
    /\ called = NoCall
    /\ \E m \in TupleMsgs :
          /\ called' = [fn |-> "decode", m |-> m]
          /\ result' = decode(m)
    /\ UNCHANGED <<upstream, start_offset, replication_lsn, pc, locals,
                   decoder, buffered_message, channel, host, feedback, nerr,
                   nprobe, history>>

\* ------------------------------------------------ the coalescer on its own
\* the calls made to the coalescer so far, and the rows passed to send_row
CoalescerCalls == IF called.fn \in {"send_row", "close_lsn"} THEN called.n ELSE 0
Passed == IF called.fn \in {"send_row", "close_lsn"} THEN called.passed ELSE <<>>

\* a caller that keeps no discipline calls the coalescer
CanCall ==
    /\ called.fn \notin {"decode", "classify"}
    /\ CoalescerCalls < MaxCalls
    /\ pc = "start"

\* row_sender.send_row(output_index, row, lsn, diff).await
CallSendRow ==
    /\ CanCall
    /\ \E o \in SourceTableIndexes, r \in Rows, lsn \in 1..MaxLsn, d \in {-1, 1} :
          LET fx == send_row(buffered_message, o, r, lsn, d)
          IN  /\ buffered_message' = fx.buf
              /\ Send(fx.sent)
              /\ pc' = IF fx.ok THEN pc ELSE "panicked"
              /\ called' = [fn |-> "send_row", n |-> CoalescerCalls + 1,
                            row |-> RowMessage(o, r, lsn, d), lsn |-> lsn,
                            passed |-> Append(Passed, RowMessage(o, r, lsn, d))]
              /\ result' = fx
    /\ UNCHANGED <<upstream, start_offset, replication_lsn, locals, decoder,
                   host, feedback, nerr, nprobe, history>>

\* row_sender.close_lsn(lsn).await
CallCloseLsn ==
    /\ CanCall
    /\ \E lsn \in 1..MaxLsn :
          LET fx == close_lsn(buffered_message, lsn)
          IN  /\ buffered_message' = fx.buf
              /\ Send(fx.sent)
              /\ pc' = IF fx.ok THEN pc ELSE "panicked"
              /\ called' = [fn |-> "close_lsn", n |-> CoalescerCalls + 1,
                            row |-> <<>>, lsn |-> lsn, passed |-> Passed]
              /\ result' = fx
    /\ UNCHANGED <<upstream, start_offset, replication_lsn, locals, decoder,
                   host, feedback, nerr, nprobe, history>>

\* Err(e)? or Err(e).err_...()? on its own
CallClassify ==
    /\ called = NoCall
    /\ \E e \in Errors, tag \in Tags :
          /\ called' = [fn |-> "classify", err |-> e, tag |-> tag]
          /\ result' = [fn |-> "classify", class |-> Classify(e, tag)]
    /\ UNCHANGED <<upstream, start_offset, replication_lsn, pc, locals,
                   decoder, buffered_message, channel, host, feedback, nerr,
                   nprobe, history>>

\* ------------------------------------------------------------------ Next
\* the replication task with its upstream and its consumer
Next ==
    \/ UpstreamCommit
    \/ UpstreamAdvance
    \/ CreateSlotElsewhere
    \/ CheckSlot
    \/ CreateSlot
    \/ CopyRow
    \/ CopyError
    \/ SnapshotDone
    \/ WarmStart
    \/ Connect
    \/ RecvBegin
    \/ RecvRow
    \/ RecvIgnored
    \/ RecvTruncate
    \/ RecvCommit
    \/ RecvKeepAlive
    \/ StreamEnd
    \/ StreamError
    \/ Probe
    \/ Receive

Spec == Init /\ [][Next]_vars

\* The source resumed from a committed offset, together with its host: the
\* feedback interval passes, the host commits offsets and drops the operator.
HostInit == Init /\ start_offset # 0

HostNext ==
    \/ UpstreamCommit
    \/ UpstreamAdvance
    \/ WarmStart
    \/ Connect
    \/ RecvBegin
    \/ RecvRow
    \/ RecvIgnored
    \/ RecvTruncate
    \/ RecvCommit
    \/ RecvKeepAlive
    \/ StreamEnd
    \/ StreamError
    \/ Probe
    \/ Receive
    \/ FeedbackTick
    \/ CommitOffsets
    \/ DropConsumer

HostSpec == HostInit /\ [][HostNext]_vars

\* The source against a publication whose tables need not have REPLICA
\* IDENTITY FULL and are altered while the source runs.
DecodeNext ==
    \/ UpstreamWrite
    \/ AlterTable
    \/ CheckSlot
    \/ CreateSlot
    \/ CopyRow
    \/ SnapshotDone
    \/ WarmStart
    \/ Connect
    \/ RecvBegin
    \/ RecvRow
    \/ RecvRelation
    \/ RecvIgnored
    \/ RecvCommit
    \/ Receive

\* started cold without a slot, or resumed from a committed offset
DecodeInit == Init /\ (start_offset = 0 => slot = NoSlot)

DecodeSpec == DecodeInit /\ [][DecodeNext]_vars

\* a cold start over tables that were all written to
SnapshotNext ==
    \/ UpstreamFill
    \/ CheckSlot
    \/ CreateSlot
    \/ CopyRow
    \/ CopyError
    \/ SnapshotDone
    \/ Connect
    \/ RecvBegin
    \/ RecvRow
    \/ RecvIgnored
    \/ RecvCommit
    \/ Receive

SnapshotInit == Init /\ start_offset = 0

SnapshotSpec == SnapshotInit /\ [][SnapshotNext]_vars

\* The functions of the source called on their own, on every argument of a
\* bounded set.
CallNext ==
    \/ CallDecode
    \/ CallClassify
    \/ CallSendRow
    \/ CallCloseLsn

CallSpec == Init /\ [][CallNext]_vars

\* ------------------------------------------------------------ the claims
IsValue(m) == m.type = "Value"
\* the Value records delivered to the consumer, in order
Values == SelectSeq(out, IsValue)

\* C1: the Value records that share an LSN are contiguous, exactly one of
\* them has end = TRUE and it is the last of them. On a stream that is still
\* growing: no record at L follows a record of another LSN that follows a
\* record at L, no record at L follows an end = TRUE record at L, the last
\* record of an LSN that was left has end = TRUE, and so has the last record
\* sent whenever the coalescer holds nothing back.
C1_OneEndPerLsn ==
    LET v == Values
    IN  /\ \A i \in 1..Len(v) : \A j \in (i + 1)..Len(v) :
              v[j].lsn = v[i].lsn =>
                  /\ ~v[i].end
                  /\ \A k \in i..j : v[k].lsn = v[i].lsn
        /\ \A i \in 1..(Len(v) - 1) : v[i + 1].lsn # v[i].lsn => v[i].end
        /\ (buffered_message = <<>> /\ v # <<>>) => v[Len(v)].end

\* C2: the LSNs of the Value records never decrease along the stream.
C2_LsnsNonDecreasing ==
    LET v == Values
    IN  \A i \in 1..Len(v) : \A j \in (i + 1)..Len(v) : v[i].lsn <= v[j].lsn

\* the positions of the trace where a Commit was decoded
Commits == {i \in 1..Len(trace) : trace[i].type = "Commit"}
HasProgressAfter(i) == \E j \in (i + 1)..Len(trace) : trace[j].type = "Progress"
\* the first Progress event after position i
ProgressAfter(i) ==
    CHOOSE j \in (i + 1)..Len(trace) :
        /\ trace[j].type = "Progress"
        /\ \A k \in (i + 1)..(j - 1) : trace[k].type # "Progress"
\* the events yielded for the Commit decoded at position i, Progress excluded
RowsOf(i) == SubSeq(trace, i + 1, ProgressAfter(i) - 1)

IsDelete(e) == e.diff = -1
IsInsert(e) == e.diff = 1

\* the Value records the coalescer makes of the rows of one transaction
RECURSIVE AsValues(_)
AsValues(rows) ==
    IF rows = <<>> THEN <<>>
    ELSE LET first == [type |-> "Value", output |-> Head(rows).output,
                       value |-> Head(rows).row, lsn |-> Head(rows).lsn,
                       diff |-> Head(rows).diff, end |-> (Len(rows) = 1)]
         IN  <<first>> \o AsValues(Tail(rows))

\* the streaming loop has just consumed the events of the Commit decoded at
\* the last Commit position of the trace
JustCommitted(i) ==
    /\ pc = "stream"
    /\ dpc = "streaming"
    /\ i \in Commits
    /\ \A k \in Commits : k <= i
    /\ ProgressAfter(i) = Len(trace)
    /\ last_commit_lsn = trace[i].lsn

\* C3: for every decoded Commit with end LSN L the events yielded are the
\* deletes (diff -1), then the inserts (diff +1), all stamped with L, then
\* Progress [L + 1]; and when the streaming loop has consumed them, the
\* consumer has received exactly these rows, in this order, the last of them
\* with end = TRUE and the others with end = FALSE.
C3_DeletesInsertsProgress ==
    \A i \in Commits :
        /\ HasProgressAfter(i)
        /\ trace[ProgressAfter(i)].lsn = trace[i].lsn + 1
        /\ \A k \in 1..Len(RowsOf(i)) :
              /\ RowsOf(i)[k].type = "Message"
              /\ RowsOf(i)[k].lsn = trace[i].lsn
              /\ IsDelete(RowsOf(i)[k]) \/ IsInsert(RowsOf(i)[k])
              /\ \A n \in (k + 1)..Len(RowsOf(i)) :
                    IsInsert(RowsOf(i)[k]) => IsInsert(RowsOf(i)[n])
        /\ JustCommitted(i) =>
              /\ Len(Values) >= Len(RowsOf(i))
              /\ SubSeq(Values, Len(Values) - Len(RowsOf(i)) + 1, Len(Values))
                    = AsValues(RowsOf(i))

\* a Commit with a delete and an insert has been consumed by the streaming loop
C3_Witness ==
    \E i \in Commits :
        /\ JustCommitted(i)
        /\ Len(RowsOf(i)) >= 2
        /\ IsDelete(RowsOf(i)[1])
        /\ IsInsert(RowsOf(i)[Len(RowsOf(i))])
        /\ Values[Len(Values)].end

\* the upstream transaction whose Commit ends at lsn
TxnAt(lsn) == wal[CHOOSE i \in 1..Len(wal) : wal[i].lsn = lsn]

CountOf(q, Test(_)) == Len(SelectSeq(q, Test))
IsSourceDelete(m) == m.rel \in SourceOids /\ m.kind \in {"Delete", "Update"}
IsSourceInsert(m) == m.rel \in SourceOids /\ m.kind \in {"Insert", "Update"}

\* C4: for every decoded Commit the number of events with diff -1 is the
\* number of Delete and Update messages of the transaction for a source table,
\* and the number with diff +1 is the number of such Insert and Update
\* messages.
C4_CountsMatchTransaction ==
    \A i \in Commits :
        /\ CountOf(RowsOf(i), IsDelete)
              = CountOf(TxnAt(trace[i].lsn).msgs, IsSourceDelete)
        /\ CountOf(RowsOf(i), IsInsert)
              = CountOf(TxnAt(trace[i].lsn).msgs, IsSourceInsert)

\* a decoded transaction with an Update of a source table and a message for
\* a table outside the source table map
C4_Witness ==
    \E i \in Commits :
        LET msgs == TxnAt(trace[i].lsn).msgs
        IN  /\ \E k \in 1..Len(msgs) : msgs[k].rel \notin SourceOids
            /\ \E k \in 1..Len(msgs) :
                  msgs[k].rel \in SourceOids /\ msgs[k].kind = "Update"
            /\ CountOf(RowsOf(i), IsDelete) = 1
            /\ CountOf(RowsOf(i), IsInsert) = 1

\* what a differential consumer accumulates: the sum of the diffs of the
\* Value records with lsn <= l, for output index o and row r
RECURSIVE SumDiffs(_, _, _, _)
SumDiffs(v, l, o, r) ==
    IF v = <<>> THEN 0
    ELSE (IF Head(v).lsn <= l /\ Head(v).output = o /\ Head(v).value = r
          THEN Head(v).diff ELSE 0)
         + SumDiffs(Tail(v), l, o, r)

\* the accumulated records with lsn <= l are the source tables as of l
RoundTripAt(l) ==
    \A o \in SourceOids : \A r \in Rows :
        SumDiffs(Values, l, source_tables[o], r) = ContentsOf(wal, l)[<<o, r>>]

\* an end = TRUE record at l was sent
Sealed(l) == \E i \in 1..Len(Values) : Values[i].lsn = l /\ Values[i].end

\* C5: after a cold start, for every sealed LSN L (an end = TRUE record at L
\* was sent, or the snapshot was closed at slot_lsn) the sum of the diffs of
\* the emitted records with lsn <= L is the contents of the source tables
\* as of L.
C5_RoundTrip ==
    start_offset = 0 =>
        /\ \A l \in 1..walEnd : Sealed(l) => RoundTripAt(l)
        /\ replication_lsn # 0 => RoundTripAt(slot_lsn)

\* the number of rows (output o, row r, diff d) the rewind handed to send_row
RECURSIVE Retracted(_, _, _, _)
Retracted(q, o, r, d) ==
    IF q = <<>> THEN 0
    ELSE (IF Head(q).row.output_index = o /\ Head(q).row.row = r
             /\ Head(q).row.diff = d THEN 1 ELSE 0)
         + Retracted(Tail(q), o, r, d)

\* the number of row events (table oid, row r, diff d) of the messages msgs
RECURSIVE RowEvents(_, _, _, _)
RowEvents(msgs, oid, r, d) ==
    IF msgs = <<>> THEN 0
    ELSE LET m == Head(msgs)
         IN  (IF m.rel = oid /\ d = 1 /\ m.kind \in {"Insert", "Update"}
                 /\ m.new = r THEN 1 ELSE 0)
             + (IF m.rel = oid /\ d = -1 /\ m.kind \in {"Delete", "Update"}
                   /\ m.old = r THEN 1 ELSE 0)
             + RowEvents(Tail(msgs), oid, r, d)

\* the row events of the commits with LSN in (lo, hi]
RECURSIVE RowEventsIn(_, _, _, _, _, _)
RowEventsIn(w, lo, hi, oid, r, d) ==
    IF w = <<>> THEN 0
    ELSE (IF Head(w).lsn > lo /\ Head(w).lsn <= hi
          THEN RowEvents(Head(w).msgs, oid, r, d) ELSE 0)
         + RowEventsIn(Tail(w), lo, hi, oid, r, d)

\* the cold start found the slot behind the snapshot
Rewinds == start_offset = 0 /\ slot_lsn < snapshot_lsn
Rewinding == Rewinds /\ pc = "rewind"
Rewound == Rewinds /\ replication_lsn # 0

\* C6: with slot_lsn < snapshot_lsn the rewind emits one retraction for every
\* row event of every commit with LSN in (slot_lsn, snapshot_lsn] (never more
\* while it runs, exactly as many when it has ended), nothing for a commit
\* after snapshot_lsn, and it ends at the first Progress event greater than
\* snapshot_lsn, with slot_lsn closed.
C6_RewindRetractsOnce ==
    /\ (Rewinding \/ Rewound) =>
          /\ \A o \in SourceOids : \A r \in Rows : \A d \in {-1, 1} :
                LET got == Retracted(rewound, source_tables[o], r, -d)
                    due == RowEventsIn(wal, slot_lsn, snapshot_lsn, o, r, d)
                IN  got <= due /\ (Rewound => got = due)
          /\ \A k \in 1..Len(rewound) :
                /\ rewound[k].event.lsn > slot_lsn
                /\ rewound[k].event.lsn <= snapshot_lsn
    /\ Rewinding =>
          \A k \in 1..Len(trace) :
              trace[k].type = "Progress" => trace[k].lsn <= snapshot_lsn
    /\ Rewound => buffered_message = <<>> \/ buffered_message[1].lsn # slot_lsn

\* C7: every row the rewind hands to the coalescer is the decoded event with
\* its diff negated, stamped with slot_lsn and not with the LSN of its
\* commit; while the rewind runs nothing in the stream or in the coalescer
\* has another LSN than slot_lsn.
C7_RewindNegatesAtSlotLsn ==
    /\ \A k \in 1..Len(rewound) :
          /\ rewound[k].row.diff = -rewound[k].event.diff
          /\ rewound[k].row.lsn = slot_lsn
          /\ rewound[k].row.lsn # rewound[k].event.lsn
          /\ rewound[k].row.output_index = rewound[k].event.output
          /\ rewound[k].row.row = rewound[k].event.row
    /\ pc = "rewind" =>
          /\ \A i \in 1..Len(Values) : Values[i].lsn = slot_lsn
          /\ buffered_message # <<>> => buffered_message[1].lsn = slot_lsn

\* a rewind that retracted a decoded insert and a decoded delete has ended
C7_Witness ==
    /\ Rewound
    /\ \E k \in 1..Len(rewound) : rewound[k].event.diff = 1
    /\ \E k \in 1..Len(rewound) : rewound[k].event.diff = -1

\* C8: no rewind when slot_lsn = snapshot_lsn. A freshly created slot always
\* has slot_lsn = snapshot_lsn and no temporary slot; the rewind runs only
\* with slot_lsn < snapshot_lsn; and with slot_lsn = snapshot_lsn no row is
\* rewound, no replication stream is opened before the snapshot is sealed and
\* every record at slot_lsn has diff +1.
C8_NoRewindWhenEqual ==
    /\ (pc = "copy" /\ found = NoSlot) => (slot_lsn = snapshot_lsn /\ ~temp_slot)
    /\ pc = "rewind" => slot_lsn < snapshot_lsn
    /\ (start_offset = 0 /\ slot_lsn = snapshot_lsn) =>
          /\ rewound = <<>>
          /\ replication_lsn = 0 => (starts = <<>> /\ dpc = "idle")
          /\ \A i \in 1..Len(Values) :
                Values[i].lsn = slot_lsn => Values[i].diff = 1

\* an existing slot whose confirmed_flush_lsn is the snapshot's consistent
\* point: the snapshot was sealed and streaming was started
C8_Witness ==
    /\ pc = "stream"
    /\ start_offset = 0
    /\ found # NoSlot
    /\ temp_slot
    /\ slot_lsn = snapshot_lsn
    /\ Sealed(slot_lsn)
    /\ starts # <<>>

\* C9: started with a resume LSN L > 0 the task skips the snapshot, issues
\* its first START_REPLICATION at L, emits no record with LSN <= L and emits
\* the rows of no committed transaction twice.
C9_WarmStartNoDuplicates ==
    start_offset > 0 =>
        /\ pc \notin {"create", "copy", "rewind"}
        /\ slot_lsn = 0 /\ snapshot_lsn = 0 /\ copied = 0
        /\ starts # <<>> => starts[1] = start_offset
        /\ \A i \in 1..Len(Values) : Values[i].lsn > start_offset
        /\ \A i \in Commits : \A j \in Commits :
              (i < j /\ trace[i].lsn = trace[j].lsn) => RowsOf(j) = <<>>

\* C10: once a snapshot row was handed to the coalescer, no failure before
\* the snapshot is sealed makes the supervisor run the cold start again:
\* whenever the cold start is about to run, no snapshot row was sent or is
\* buffered.
C10_NoRetryAfterSnapshotRow ==
    (pc = "start" /\ replication_lsn = 0) =>
        (Values = <<>> /\ buffered_message = <<>>)

\* ------------------------------------------------------------ C11
IsErr(m) == m.type = "Err"

\* C11: when the inner loop returns a Definite error the supervisor sends the
\* Err record (one, to a consumer that is still there) and stops: from then on
\* it stays stopped, no decoder runs and nothing more is sent, so the channel
\* never carries a second Err record or any message after the first.
C11_DefiniteStops ==
    [][/\ (returned' = "Definite" /\ pc # "stopped")
            => /\ pc' = "stopped"
               /\ out' = IF rx_open THEN Append(out, ErrRecord) ELSE out
       /\ pc = "stopped"
            => /\ pc' = "stopped" /\ dpc' = "idle" /\ returned' = "Definite"
               /\ out' = out /\ discarded' = discarded
       /\ Len(SelectSeq(out', IsErr)) <= 1]_vars

\* a Definite error after messages were sent: the Err record is the last one
C11_Witness ==
    /\ pc = "stopped" /\ returned = "Definite" /\ rx_open
    /\ Len(out) >= 2
    /\ out[Len(out)] = ErrRecord
    /\ IsValue(out[1])

\* ------------------------------------------------------------ C12
\* C12: when the inner loop returns an Indefinite error the supervisor sends
\* Status with should_halt = false and goes back to the start of the inner
\* loop with replication_lsn as it was; the inner loop that starts then takes
\* the snapshot if and only if replication_lsn = 0, and otherwise creates the
\* decoder at replication_lsn, whose START_REPLICATION names that LSN.
C12_IndefiniteRetries ==
    [][/\ (returned' = "Indefinite" /\ nerr' # nerr)
            => /\ pc' = "start" /\ dpc' = "idle"
               /\ replication_lsn' = replication_lsn
               /\ out' = IF rx_open THEN Append(out, Status(FALSE)) ELSE out
       /\ (pc = "start" /\ pc' \notin {"start", "stopped", "halted"})
            => /\ replication_lsn' = replication_lsn
               /\ replication_lsn = 0 => (pc' = "create" /\ dpc' = "idle")
               /\ replication_lsn # 0
                    => /\ pc' = "stream" /\ dpc' = "connect"
                       /\ last_commit_lsn' = replication_lsn
       /\ (pc = "start" /\ pc' = "start") => replication_lsn' = replication_lsn
       /\ (dpc = "connect" /\ dpc' = "streaming")
            => starts' = Append(starts, last_commit_lsn)]_vars

\* an Indefinite error after the source, started cold, had produced data: the
\* retry skipped the snapshot and the stream was reopened at replication_lsn
C12_Witness ==
    /\ returned = "Indefinite" /\ start_offset = 0 /\ replication_lsn # 0
    /\ pc = "stream" /\ dpc = "streaming" /\ rx_open
    /\ starts[Len(starts)] = replication_lsn
    /\ \E i \in 1..Len(out) : out[i] = Status(FALSE)

\* ------------------------------------------------------------ C13
\* C13: when the inner loop returns an Irrecoverable error the supervisor
\* sends Status with should_halt = true and parks: from then on it stays
\* halted, the inner loop and the decoder never run again, and no message is
\* sent or discarded.
C13_IrrecoverableParks ==
    [][/\ (returned' = "Irrecoverable" /\ pc # "halted")
            => /\ pc' = "halted"
               /\ out' = IF rx_open THEN Append(out, Status(TRUE)) ELSE out
       /\ pc = "halted"
            => /\ pc' = "halted" /\ dpc' = "idle"
               /\ returned' = "Irrecoverable"
               /\ out' = out /\ discarded' = discarded
               /\ starts' = starts /\ replication_lsn' = replication_lsn]_vars

\* a failure of the snapshot after a row was copied: the row is still in the
\* coalescer and the halting Status is the only message
C13_Witness ==
    /\ pc = "halted" /\ returned = "Irrecoverable" /\ rx_open
    /\ buffered_message # <<>>
    /\ out = <<Status(TRUE)>>

\* ------------------------------------------------------------ C14
\* C14: while a decoder exists, the shared resume_lsn, which the committer
\* sets from frontiers the consumer has reached, is never greater than the
\* decoder's last_commit_lsn.
C14_ResumeBehindDecoder ==
    dpc # "idle" => resume_lsn <= last_commit_lsn

\* ------------------------------------------------------------ C15
\* C15: a call of commit_offsets with a frontier at offset n leaves n - 1 in
\* resume_lsn, and 0 for n = 0; a call with the empty frontier leaves
\* resume_lsn as it was; the call returns Ok; nothing else writes resume_lsn.
C15_CommitOffsetsStores ==
    [][/\ committed' # committed
            => LET call == committed'[1]
               IN  /\ call.result = "Ok"
                   /\ call.frontier = <<>> => resume_lsn' = resume_lsn
                   /\ call.frontier # <<>>
                        => /\ call.frontier[1] = 0 => resume_lsn' = 0
                           /\ call.frontier[1] > 0
                                => resume_lsn' = call.frontier[1] - 1
       /\ committed' = committed => resume_lsn' = resume_lsn]_vars

\* the frontier at offset 0 was committed over a resume_lsn that was not 0
C15_Witness ==
    /\ committed # <<>>
    /\ committed[1].frontier = <<0>>
    /\ start_offset > 0
    /\ resume_lsn = 0

\* ------------------------------------------------------------ C16
\* C16: every iteration of the decoder that received a message while the
\* feedback interval had elapsed, or that received a keepalive with
\* reply = 1, sends a status update; the update carries the value resume_lsn
\* has then as its write, flush and apply positions, and resets
\* last_feedback.
C16_FeedbackOnEveryIteration ==
    [][/\ ~unanswered'
       /\ (feedback_due /\ dpc = "streaming" /\ dpc' = "streaming"
            /\ sent_pos' # sent_pos)
            => Len(status_updates') = Len(status_updates) + 1
       /\ status_updates' # status_updates
            => /\ status_updates' =
                     Append(status_updates,
                            [write_lsn |-> resume_lsn, flush_lsn |-> resume_lsn,
                             apply_lsn |-> resume_lsn])
               /\ ~feedback_due']_vars

\* ------------------------------------------------------------ C17
\* C17: a probe that finds no change after last_commit_lsn yields Progress
\* [observed_wal_end + 1] and, when the generator is polled again, has set
\* last_commit_lsn to observed_wal_end; a probe that finds a change yields
\* nothing and leaves last_commit_lsn; either way the next START_REPLICATION
\* names last_commit_lsn as the probe left it.
C17_ProbeFastForwards ==
    [][/\ (dpc = "probe" /\ dpc' # "probe" /\ nerr' = nerr)
            => IF Changes = 0
               THEN /\ trace' = Append(trace, Progress(observed_wal_end + 1))
                    /\ pc' = pc => /\ dpc' = "connect"
                                   /\ last_commit_lsn' = observed_wal_end
               ELSE /\ trace' = trace /\ pc' = pc /\ dpc' = "connect"
                    /\ last_commit_lsn' = last_commit_lsn
       /\ (dpc = "connect" /\ dpc' = "connect" /\ pc' = pc)
            => last_commit_lsn' = last_commit_lsn
       /\ (dpc = "connect" /\ dpc' = "streaming")
            => /\ starts' = Append(starts, last_commit_lsn)
               /\ last_commit_lsn' = last_commit_lsn]_vars

\* the probe moved last_commit_lsn forward to observed_wal_end and the stream
\* was reopened there
C17_Witness ==
    /\ dpc = "streaming" /\ nprobe > 0
    /\ Len(starts) >= 2
    /\ starts[Len(starts)] = observed_wal_end
    /\ starts[Len(starts)] > starts[Len(starts) - 1]
    /\ trace # <<>>
    /\ trace[Len(trace)] = Progress(observed_wal_end + 1)

\* ------------------------------------------------------------ C18
\* no step of the host specification changes the state any more: the run is over
Quiescent == ~ENABLED <<HostNext>>_vars

\* C18: once the consumer is dropped every send is discarded and leaves the
\* channel as it is, and a run in which a send was discarded ends with the
\* replication loop exited.
C18_LoopExitsAfterDrop ==
    /\ [][~rx_open => (out' = out /\ discarded' >= discarded)]_vars
    /\ []((discarded > 0 /\ Quiescent) => pc = "stopped")

TakesTruncate ==
    /\ HasNextMessage
    /\ NextMessage.kind = "Truncate"
    /\ nerr' = nerr
    /\ dpc' # "probe"
    /\ dpc' # dpc \/ sent_pos' # sent_pos

\* C20: a Truncate in the stream, of a source table or of any other table,
\* makes the inner loop return a Definite error: the decoder is gone with the
\* rows it had buffered for the transaction, nothing of the transaction is
\* yielded or sent, the Err record is the only message and the task stops.
C20_TruncateIsDefinite ==
    [][TakesTruncate
         => /\ returned' = "Definite"
            /\ pc' = "stopped" /\ dpc' = "idle"
            /\ inserts' = <<>> /\ deletes' = <<>>
            /\ trace' = trace
            /\ buffered_message' = buffered_message
            /\ out' = IF rx_open THEN Append(out, ErrRecord) ELSE out]_vars

\* a transaction that inserted into a source table and then truncated a table
\* outside the source table map ended the source: its Insert was never sent
C20_Witness ==
    /\ pc = "stopped" /\ returned = "Definite"
    /\ nerr = 0 /\ nprobe = 0
    /\ out = <<ErrRecord>>
    /\ \E i \in 1..Len(wal) :
          /\ wal[i].lsn > start_offset
          /\ wal[i].msgs = <<Insert(PubTables[1], 1), Truncate(PubTables[2])>>
    /\ PubTables[1] \in SourceOids /\ PubTables[2] \notin SourceOids

\* ------------------------------------------------------------ C21
\* the decoder takes the Update or the Delete of a source table that the
\* stream delivers next and that carries no old tuple
TakesRowWithoutOld ==
    /\ HasNextMessage
    /\ NextMessage.kind \in {"Update", "Delete"}
    /\ NextMessage.rel \in SourceOids
    /\ old_tuple(NextMessage) = NoTuple
    /\ dpc' # dpc \/ sent_pos' # sent_pos

\* C21: an Update or a Delete of a source table without an old tuple makes
\* the inner loop return a Definite error: no buffer gets a row for the
\* message (no buffer ever holds the row of a missing tuple), the decoder is
\* gone, no event is yielded, and no Value record of the transaction is sent
\* with the Err record that stops the task.
C21_MissingOldTupleIsDefinite ==
    /\ [][TakesRowWithoutOld
            => /\ returned' = "Definite"
               /\ pc' = "stopped" /\ dpc' = "idle"
               /\ inserts' = <<>> /\ deletes' = <<>>
               /\ trace' = trace
               /\ buffered_message' = buffered_message
               /\ out' = IF rx_open THEN Append(out, ErrRecord) ELSE out
               /\ \A i \in 1..Len(out') :
                     IsValue(out'[i]) => out'[i].lsn # CurrentTxn.lsn]_vars
    /\ [](\A i \in 1..Len(deletes) : deletes[i].row # NoTuple)

\* a transaction that inserted into a source table and then deleted from it,
\* the Delete without its old tuple, ended the source: nothing of it was sent
C21_Witness ==
    /\ pc = "stopped" /\ returned = "Definite"
    /\ out = <<ErrRecord>>
    /\ \E i \in 1..Len(wal) :
          /\ wal[i].lsn > start_offset
          /\ wal[i].msgs = <<Insert(PubTables[1], 1), DeleteNoOld(PubTables[1], 1)>>
    /\ PubTables[1] \in SourceOids

\* ------------------------------------------------------------ C22
\* the streaming loop's decoder takes the Commit of a transaction for which
\* it buffered no row
TakesEmptyCommit ==
    /\ pc = "stream"
    /\ Streaming
    /\ sent_pos = Len(CurrentTxn.msgs) + 1
    /\ inserts = <<>> /\ deletes = <<>>
    /\ nerr' = nerr
    /\ dpc' # "probe"
    /\ dpc' # dpc \/ sent_pos' # sent_pos

\* C22: a Commit at end LSN L of a transaction that buffered no row yields
\* Progress [L + 1] and nothing else; the streaming loop sends no Value
\* record for it and sets replication_lsn to L.
C22_EmptyCommitAdvances ==
    [][TakesEmptyCommit
         => /\ trace' = trace \o <<Decoded(CurrentTxn.lsn),
                                    Progress(CurrentTxn.lsn + 1)>>
            /\ SelectSeq(out', IsValue) = Values
            /\ out' = out
            /\ buffered_message' = <<>>
            /\ replication_lsn' = CurrentTxn.lsn
            /\ last_commit_lsn' = CurrentTxn.lsn
            /\ pc' = "stream"]_vars

\* a transaction that only wrote to a table outside the source table map
\* was decoded: nothing was sent and the cursor is at its Commit
C22_Witness ==
    /\ pc = "stream" /\ dpc = "streaming"
    /\ start_offset > 0
    /\ out = <<>>
    /\ Len(trace) = 2
    /\ trace[2] = Progress(replication_lsn + 1)
    /\ replication_lsn > start_offset
    /\ TxnAt(replication_lsn).msgs = <<Insert(PubTables[2], 1)>>
    /\ PubTables[2] \notin SourceOids

\* ------------------------------------------------------------ C23
\* the decoder takes the Begin that the stream delivers next
TakesBegin ==
    /\ Streaming
    /\ sent_pos = 0
    /\ nerr' = nerr
    /\ dpc' # "probe"
    /\ dpc' # dpc \/ sent_pos' # sent_pos

\* C23: a Begin taken while the inserts or the deletes buffer holds a row
\* makes the inner loop return a Definite error, with no event yielded and
\* the Err record sent; a Begin taken with both buffers empty leaves the
\* buffers, the trace, the coalescer and the channel as they are.
C23_BeginAfterUncommittedData ==
    [][TakesBegin
         => IF inserts # <<>> \/ deletes # <<>>
            THEN /\ returned' = "Definite"
                 /\ pc' = "stopped" /\ dpc' = "idle"
                 /\ trace' = trace
                 /\ buffered_message' = buffered_message
                 /\ out' = IF rx_open THEN Append(out, ErrRecord) ELSE out
            ELSE /\ inserts' = <<>> /\ deletes' = <<>>
                 /\ pc' = pc /\ dpc' = "streaming"
                 /\ returned' = returned
                 /\ trace' = trace
                 /\ buffered_message' = buffered_message
                 /\ out' = out]_vars

\* a stream left for the probe after the Delete of a transaction, and before
\* its Commit, was reopened: the Begin it delivered found the buffered
\* delete and ended the source
C23_Witness ==
    /\ pc = "stopped" /\ returned = "Definite"
    /\ nerr = 0 /\ nprobe = 1
    /\ Len(starts) = 2
    /\ out = <<ErrRecord>>
    /\ \A i \in 1..Len(wal) : \A k \in 1..Len(wal[i].msgs) :
          wal[i].msgs[k].kind = "Delete"

\* ------------------------------------------------------------ C24
\* the decoder takes the message that the stream delivers next, which is a
\* row message of a table outside the source table map, an Origin or a Type
TakesIgnored ==
    /\ HasNextMessage
    /\ \/ NextMessage.kind \in RowKinds /\ NextMessage.rel \notin SourceOids
       \/ NextMessage.kind \in {"Origin", "Type"}
    /\ nerr' = nerr
    /\ dpc' # "probe"
    /\ dpc' # dpc \/ sent_pos' # sent_pos

\* C24: a row message of a table outside the source table map, an Origin
\* message and a Type message leave both buffers and last_commit_lsn as they
\* are, yield no event, send nothing and return no error: the decoder goes on
\* to the next message of the stream.
C24_IgnoredMessages ==
    [][TakesIgnored
         => /\ inserts' = inserts /\ deletes' = deletes
            /\ last_commit_lsn' = last_commit_lsn
            /\ trace' = trace
            /\ out' = out /\ buffered_message' = buffered_message
            /\ returned' = returned
            /\ pc' = pc /\ dpc' = "streaming"
            /\ sent_pos' = sent_pos + 1]_vars

\* a transaction made of a Type message and an Update, without old tuple, of
\* a table outside the source table map was decoded to its Commit, after the
\* transaction that inserted the row: nothing was sent
C24_Witness ==
    /\ pc = "stream" /\ dpc = "streaming" /\ returned = "none"
    /\ out = <<>> /\ buffered_message = <<>>
    /\ PubTables[2] \notin SourceOids
    /\ \E i \in Commits :
          TxnAt(trace[i].lsn).msgs = <<Type, UpdateNoOld(PubTables[2], 1, 1)>>

\* ------------------------------------------------------------ C25
\* the publication describes the source table as the source has it stored
\* (every description that was altered upstream is incompatible or missing)
Unaltered(o) == publication[o] = StoredDesc(o)

\* the cold start runs its check of the publication and does not fail on a
\* query or a connection
TakesColdCheck ==
    /\ pc = "start" /\ replication_lsn = 0
    /\ pc' # "start"
    /\ nerr' = nerr

\* the decoder takes the Relation message that the stream delivers next
TakesRelation ==
    /\ HasNextMessage
    /\ NextMessage.kind = "Relation"
    /\ nerr' = nerr
    /\ dpc' # dpc \/ sent_pos' # sent_pos

\* what a Definite error of the check leaves: the Err record and the end
IsDefiniteStop ==
    /\ returned' = "Definite"
    /\ pc' = "stopped" /\ dpc' = "idle"
    /\ trace' = trace
    /\ out' = IF rx_open THEN Append(out, ErrRecord) ELSE out

\* C25: the cold start ends with a Definite error when a source table is
\* missing from the publication or described incompatibly, and goes on to
\* the slot otherwise; a Relation message for a source table ends the source
\* with a Definite error when that table is missing or incompatible now; a
\* Relation message for a compatible source table or for a table outside the
\* source table map changes nothing; a warm start makes no check.
C25_PublicationChecked ==
    [][/\ TakesColdCheck
            => IF \A o \in SourceOids : Unaltered(o)
               THEN pc' = "create" /\ returned' = returned /\ out' = out
               ELSE IsDefiniteStop
       /\ TakesRelation
            => IF NextMessage.rel \in SourceOids /\ ~Unaltered(NextMessage.rel)
               THEN IsDefiniteStop
               ELSE /\ inserts' = inserts /\ deletes' = deletes
                    /\ last_commit_lsn' = last_commit_lsn
                    /\ trace' = trace
                    /\ out' = out /\ buffered_message' = buffered_message
                    /\ returned' = returned
                    /\ pc' = pc /\ dpc' = "streaming"
                    /\ sent_pos' = sent_pos + 1
       /\ (pc = "start" /\ replication_lsn # 0 /\ pc' # "start")
            => pc' = "stream" /\ returned' = returned]_vars

\* a resumed source whose table had a column renamed: the Relation message
\* of a table outside the source table map was passed over, the Relation
\* message of the source table ended the source
C25_Witness ==
    /\ pc = "stopped" /\ returned = "Definite"
    /\ start_offset > 0 /\ nerr = 0
    /\ out = <<ErrRecord>>
    /\ publication[PubTables[1]] = Renamed(StoredDesc(PubTables[1]))
    /\ PubTables[1] \in SourceOids /\ PubTables[2] \notin SourceOids
    /\ \E i \in 1..Len(wal) :
          /\ wal[i].lsn > start_offset
          /\ wal[i].msgs = <<Relation(PubTables[2]), Relation(PubTables[1])>>
    /\ \A i \in 1..Len(wal) : \A k \in 1..Len(wal[i].msgs) :
          wal[i].msgs[k].kind = "Relation"

\* ------------------------------------------------------------ C26
HasToast(tuple_data) ==
    \E i \in 1..Len(tuple_data) : tuple_data[i] = UnchangedToast

\* the fields the casts accept, and the value each of them stands for
Castable(field) == field \in {TupleNull, Text("1"), Text("2")}
ValueOf(field) ==
    IF field = TupleNull THEN NullValue
    ELSE IF field = Text("1") THEN IntValue(1) ELSE IntValue(2)

\* the new tuple of an Update with its UnchangedToast fields taken from the
\* old tuple, position by position
Merged(m, i) == IF m.new[i] = UnchangedToast THEN m.old[i] ELSE m.new[i]

\* C26: an UnchangedToast field in the tuple of an Insert, in the old tuple
\* of a Delete or in the old tuple of an Update is a Definite error and no
\* row is pushed; an Update whose old tuple has none and whose fields cast
\* pushes the old row to the deletes and, to the inserts, the row of the new
\* tuple with every UnchangedToast field replaced by the old tuple's field at
\* the same position, whether or not the new tuple has such fields.
C26_ToastBackFilled ==
    called.fn = "decode" =>
        LET m == called.m
        IN  /\ (m.kind = "Insert" /\ HasToast(m.new))
                 => /\ result.error = "Definite"
                    /\ result.inserts = <<>> /\ result.deletes = <<>>
            /\ (m.kind \in {"Delete", "Update"} /\ m.has_old /\ HasToast(m.old))
                 => /\ result.error = "Definite"
                    /\ result.inserts = <<>> /\ result.deletes = <<>>
            /\ (/\ m.kind = "Update" /\ m.has_old
                /\ \A i \in 1..Columns : Castable(m.old[i]) /\ Castable(Merged(m, i)))
                 => /\ result.error = "none"
                    /\ result.deletes = <<[i \in 1..Columns |-> ValueOf(m.old[i])]>>
                    /\ result.inserts = <<[i \in 1..Columns |-> ValueOf(Merged(m, i))]>>
            /\ (m.kind = "Update" /\ result.error = "none")
                 => /\ m.has_old /\ ~HasToast(m.old)
                    /\ \A i \in 1..Columns : Castable(Merged(m, i))

\* an Update that changed the first column and left the second, TOASTed,
\* column alone: the inserted row has the new first and the old second value
C26_Witness ==
    /\ called.fn = "decode"
    /\ called.m = TupleMsg("Update", TRUE, <<Text("1"), Text("1")>>,
                           <<Text("2"), UnchangedToast>>)
    /\ result.error = "none"
    /\ result.deletes = <<<<IntValue(1), IntValue(1)>>>>
    /\ result.inserts = <<<<IntValue(2), IntValue(1)>>>>

\* ------------------------------------------------------------ C27
\* the row a Value record carries
RowOfValue(v) == RowMessage(v.output, v.value, v.lsn, v.diff)

RECURSIVE RowsOfValues(_)
RowsOfValues(v) ==
    IF v = <<>> THEN <<>> ELSE <<RowOfValue(Head(v))>> \o RowsOfValues(Tail(v))

IsPrefix(p, q) == Len(p) <= Len(q) /\ SubSeq(q, 1, Len(p)) = p

\* C27: the coalescer never holds more than one row. A call of send_row
\* with a buffered row of the same LSN sends the buffered row with
\* end = FALSE and buffers the new one; with an empty buffer it sends nothing
\* and buffers the new one; with a buffered row of another LSN its assertion
\* fails and nothing is sent. The rows sent, followed by the buffered one,
\* are the rows passed to send_row in the order of the calls (a prefix of
\* them once an assertion has failed).
C27_SendRowCoalesces ==
    /\ [](Len(buffered_message) <= 1)
    /\ [][(called' # called /\ called'.fn = "send_row")
            => IF buffered_message = <<>>
               THEN /\ out' = out /\ pc' = pc
                    /\ buffered_message' = <<called'.row>>
               ELSE IF buffered_message[1].lsn = called'.lsn
               THEN /\ out' = Append(out, Value(buffered_message[1], FALSE))
                    /\ pc' = pc
                    /\ buffered_message' = <<called'.row>>
               ELSE out' = out /\ pc' = "panicked"]_vars
    /\ [](IF pc = "panicked"
          THEN IsPrefix(RowsOfValues(Values), Passed)
          ELSE RowsOfValues(Values) \o buffered_message = Passed)

\* three rows of one LSN were passed to send_row: the first two were sent,
\* in their order and with end = FALSE, the third is buffered
C27_Witness ==
    /\ called.fn = "send_row" /\ called.n = 3
    /\ Len(Passed) = 3
    /\ Passed[1] # Passed[2]
    /\ Len(out) = 2
    /\ ~out[1].end /\ ~out[2].end
    /\ RowOfValue(out[1]) = Passed[1] /\ RowOfValue(out[2]) = Passed[2]
    /\ buffered_message = <<Passed[3]>>

\* ------------------------------------------------------------ C28
\* the records the step appended to the channel
Gained == SubSeq(out', Len(out) + 1, Len(out'))
IsEnd(m) == m.type = "Value" /\ m.end
\* the step closed the LSN of the row the coalescer was holding
ClosesBuffered == buffered_message # <<>> /\ buffered_message' = <<>>

\* close_lsn applied to the buffer the coalescer holds, for every L
CloseLsnOfBuffer ==
    \A L \in 0..MaxLsn :
        LET fx == close_lsn(buffered_message, L)
        IN  /\ fx.buf = <<>>
            /\ close_lsn(fx.buf, L) = [buf |-> <<>>, sent |-> <<>>, ok |-> TRUE]
            /\ IF buffered_message = <<>>
               THEN fx.sent = <<>> /\ fx.ok
               ELSE /\ fx.ok <=> buffered_message[1].lsn <= L
                    /\ fx.ok => fx.sent = <<Value(buffered_message[1], TRUE)>>

\* C28: close_lsn(L) of a buffered row whose LSN is at most L sends that
\* row with end = TRUE and its own LSN and empties the buffer, and close_lsn
\* of an empty buffer sends nothing, so the second of two calls in a row
\* does nothing. In the replication loop no assertion of the coalescer ever
\* fails, and a step that closes the LSN of a buffered row sends the rows
\* of that LSN with exactly one end = TRUE record, the last of them, the
\* buffered row first.
C28_CloseLsn ==
    /\ [](pc # "panicked" /\ CloseLsnOfBuffer)
    /\ [][ClosesBuffered
            => /\ Gained # <<>>
               /\ Gained[1] = Value(buffered_message[1],  Len(Gained) = 1)
               /\ \A i \in 1..Len(Gained) :
                     /\ Gained[i].type = "Value"
                     /\ Gained[i].lsn = buffered_message[1].lsn
                     /\ Gained[i].end <=> i = Len(Gained)
               /\ buffered_message[1].lsn <= slot_lsn]_vars

\* the rewind was left with a row in the coalescer: the two calls of
\* close_lsn(slot_lsn) sent it once, with end = TRUE, and streaming started
C28_Witness ==
    /\ Rewinds /\ pc = "stream"
    /\ rewound # <<>>
    /\ buffered_message = <<>>
    /\ out # <<>>
    /\ IsEnd(out[Len(out)])
    /\ out[Len(out)].lsn = slot_lsn
    /\ Cardinality({i \in 1..Len(out) : IsEnd(out[i])}) = 1

\* ------------------------------------------------------------ C29
\* the statements of a cold start that found the slot, and of one that did not
WithExistingSlot ==
    <<"SELECT confirmed_flush_lsn", "BEGIN", "CREATE_REPLICATION_SLOT TEMPORARY",
      "DROP_REPLICATION_SLOT", "COMMIT">>
WithoutSlot ==
    <<"SELECT confirmed_flush_lsn", "BEGIN", "CREATE_REPLICATION_SLOT", "COMMIT">>
StartsWith(seq, prefix) ==
    Len(prefix) <= Len(seq) /\ SubSeq(seq, 1, Len(prefix)) = prefix
\* CREATE_REPLICATION_SLOT succeeded
SlotCreated == pc = "create" /\ pc' = "copy"

\* C29: the client of a cold start is sent the slot query, then BEGIN, then
\* CREATE_REPLICATION_SLOT as the first statement of the transaction. When
\* the query found the slot the slot created is a temporary one, slot_lsn is
\* the confirmed_flush_lsn found, snapshot_lsn is the consistent point of
\* the temporary slot and the configured slot is left as it is; when it
\* found none the configured slot is created, slot_lsn and snapshot_lsn are
\* both its consistent point and there is no temporary slot. The assertion
\* slot_lsn <= snapshot_lsn made after the snapshot never fails.
C29_SlotBeforeSnapshot ==
    /\ [](/\ \/ StartsWith(WithExistingSlot, statements)
             \/ StartsWith(WithoutSlot, statements)
          /\ (pc = "create") => (statements = ColdStartStatements)
          /\ (pc = "copy") => (Len(statements) = 3)
          /\ (pc \in {"rewind", "stream"} /\ start_offset = 0)
                => (slot_lsn <= snapshot_lsn)
          /\ pc # "panicked")
    /\ [][SlotCreated
            => IF found # NoSlot
               THEN /\ statements' = Append(ColdStartStatements,
                                            "CREATE_REPLICATION_SLOT TEMPORARY")
                    /\ temp_slot'
                    /\ snapshot_lsn' = walEnd
                    /\ slot_lsn' = found /\ found = slot
                    /\ slot_lsn' <= snapshot_lsn'
                    /\ slot' = slot
               ELSE /\ statements' = Append(ColdStartStatements,
                                            "CREATE_REPLICATION_SLOT")
                    /\ ~temp_slot'
                    /\ slot = NoSlot /\ slot' = walEnd
                    /\ slot_lsn' = walEnd /\ snapshot_lsn' = walEnd]_vars

\* a cold start found the slot behind the end of WAL and created the
\* temporary slot: its consistent point is ahead of slot_lsn
C29_Witness ==
    /\ pc = "copy"
    /\ statements = SubSeq(WithExistingSlot, 1, 3)
    /\ temp_slot
    /\ slot_lsn = slot /\ slot_lsn < snapshot_lsn
    /\ snapshot_lsn = walEnd

\* ------------------------------------------------------------ C30
\* CREATE_REPLICATION_SLOT is sent for a name another session has taken
\* since the query
CreatesTakenSlot ==
    /\ pc = "create"
    /\ found = NoSlot
    /\ slot # NoSlot
    /\ pc' # pc
    /\ nerr' = nerr

\* C30: when the configured slot was created by another session between
\* the query and CREATE_REPLICATION_SLOT, the inner loop returns an
\* Indefinite error: the supervisor sends a Status that does not halt and
\* runs the inner loop again, which finds the slot.
C30_SlotRaceIsRetried ==
    [][CreatesTakenSlot
         => /\ returned' = "Indefinite"
            /\ out' = Append(out, Status(FALSE))
            /\ pc' = "start"
            /\ replication_lsn' = 0
            /\ slot' = slot]_vars

\* ------------------------------------------------------------ C31
\* the SQLSTATE of the database error an error is or has as its source,
\* <<>> when there is none
SqlStateOf(e) ==
    CASE e.type = "DbError" -> e.code
      [] e.type \in {"tokio_postgres", "io"} /\ e.source.type = "DbError" -> e.source.code
      [] e.type = "io" /\ e.source.type = "tokio_postgres"
           /\ e.source.source.type = "DbError" -> e.source.source.code
      [] OTHER -> <<>>
DefiniteClasses == {<<"3", "D">>, <<"3", "F">>, <<"4", "2">>}
Classified == called.fn = "classify"

\* C31: an error passed on with `?` is Definite exactly when it is, or has
\* as its source, a database error whose SQLSTATE starts with 3D, 3F or 42;
\* every other database error, every error without a database error as its
\* source and every timeout is Indefinite; a tag decides the class of any
\* error.
C31_ErrorClasses ==
    Classified =>
        LET code == SqlStateOf(called.err)
        IN  result.class =
              CASE called.tag = "err_definite" -> "Definite"
                [] called.tag = "err_indefinite" -> "Indefinite"
                [] called.tag = "err_irrecoverable" -> "Irrecoverable"
                [] OTHER ->
                     IF /\ called.err.type # "Elapsed"
                        /\ Len(code) >= 2
                        /\ <<code[1], code[2]>> \in DefiniteClasses
                     THEN "Definite" ELSE "Indefinite"

\* an io error whose source is a tokio_postgres error whose source is a
\* database error of class 3F, passed on with `?`, is Definite
C31_Witness ==
    /\ Classified
    /\ called.tag = "?"
    /\ called.err = IoError(PgError(DbError(<<"3", "F", "0", "0", "0">>)))
    /\ result.class = "Definite"

\* ------------------------------------------------------------ C32
\* the snapshot rows handed to the coalescer so far
HandedSnapshot == Values \o (IF buffered_message = <<>> THEN <<>>
                             ELSE <<Value(buffered_message[1], FALSE)>>)
\* the oid of the table an output index belongs to
OidOf(output) == PubTables[output]
SnapshotRunning == pc = "copy"
\* the cold start enters the streaming loop
SealsSnapshot == start_offset = 0 /\ pc \in {"copy", "rewind"} /\ pc' = "stream"

\* C32: every snapshot row is handed to the coalescer with diff +1 and the
\* LSN slot_lsn; the rows the running snapshot has handed so far, followed
\* by those still to come, are the rows the source tables had at
\* snapshot_lsn, table after table in ascending order of oid; when the cold
\* start enters the streaming loop the coalescer is empty, the last Value
\* sent has end = TRUE at slot_lsn, and replication_lsn is slot_lsn; a cold
\* start that was handed no snapshot row (as with no source table) and that
\* rewinds none sends no Value.
C32_SnapshotRows ==
    /\ [](/\ produce_snapshot(ContentsOf(wal, walEnd), {}) = <<>>
          /\ SnapshotRunning =>
                /\ \A i \in 1..Len(HandedSnapshot) :
                      /\ HandedSnapshot[i].lsn = slot_lsn
                      /\ HandedSnapshot[i].diff = 1
                /\ copied <= Len(HandedSnapshot)
                /\ LET first == Len(HandedSnapshot) - copied
                       all == [i \in 1..copied |->
                                 [output |-> HandedSnapshot[first + i].output,
                                  row |-> HandedSnapshot[first + i].value]] \o copy
                   IN  /\ all = produce_snapshot(ContentsOf(wal, snapshot_lsn),
                                                 SourceOids)
                       /\ \A i \in 1..Len(all) : \A j \in i..Len(all) :
                             OidOf(all[i].output) <= OidOf(all[j].output))
    /\ [][/\ (SnapshotRunning /\ copied' = copied + 1)
               => buffered_message' =
                     <<RowMessage(Head(copy).output, Head(copy).row, slot_lsn, 1)>>
          /\ SealsSnapshot
               => /\ buffered_message' = <<>>
                  /\ replication_lsn' = slot_lsn
                  /\ LET v == SelectSeq(out', IsValue)
                     IN  IF HandedSnapshot = <<>> /\ rewound' = <<>> THEN v = <<>>
                         ELSE v # <<>> => /\ v[Len(v)].end
                                          /\ v[Len(v)].lsn = slot_lsn]_vars

\* a snapshot behind an existing slot: the row of the first source table
\* was sent and the row of the last one is in the coalescer, both at
\* slot_lsn, which is below snapshot_lsn
C32_Witness ==
    /\ SnapshotRunning /\ copy = <<>> /\ copied = 2
    /\ slot_lsn < snapshot_lsn
    /\ Len(Values) = 1
    /\ OidOf(Values[1].output) = PubTables[1]
    /\ buffered_message # <<>>
    /\ OidOf(buffered_message[1].output_index) = PubTables[3]
    /\ buffered_message[1].lsn = slot_lsn

\* ------------------------------------------------------------ C33
\* the snapshot stream yields an error that is not definite, the read
\* timeout among them, before any snapshot row was handed on
SnapshotTimesOutEarly ==
    /\ pc = "copy"
    /\ nerr' = nerr + 1
    /\ HandedSnapshot = <<>>
    /\ copied = 0
    /\ returned' # "Definite"

\* C33: a read timeout of the snapshot stream before the first snapshot row
\* makes the inner loop return an Indefinite error: the supervisor sends a
\* Status with should_halt = FALSE and runs the inner loop again.
C33_SnapshotTimeoutIsRetried ==
    [][SnapshotTimesOutEarly
         => /\ returned' = "Indefinite"
            /\ out' = Append(out, Status(FALSE))
            /\ pc' = "start"]_vars

\* ------------------------------------------------------------ C34
\* the decoder leaves the consume loop for the probe
LeavesForProbe == dpc = "streaming" /\ dpc' = "probe"

\* C34: the decoder leaves streaming for the probe only when no data
\* message has arrived for longer than WAL_LAG_GRACE_PERIOD, and leaving is
\* not an error: nothing is sent, the inner loop does not return and the
\* buffers are kept; a decoder that is streaming is otherwise still
\* streaming after the step, unless the loop that polls it was left.
C34_ProbeOnlyOnLag ==
    [][/\ LeavesForProbe
            => /\ lagged'
               /\ out' = out /\ pc' = pc /\ returned' = returned
               /\ nerr' = nerr
       /\ (dpc = "streaming" /\ ~LeavesForProbe /\ pc' = pc)
            => dpc' = "streaming"]_vars

\* ------------------------------------------------------------ C35
\* the Progress events the step added to the trace
NewProgress ==
    {trace'[i].lsn : i \in {j \in (Len(trace) + 1)..Len(trace') :
                               trace'[j].type = "Progress"}}
SameDecoder == dpc # "idle" /\ dpc' # "idle" /\ pc' = pc

\* C35: replication_lsn never decreases, the last_commit_lsn of a decoder
\* never decreases, and every Progress event a decoder yields lies above
\* the last_commit_lsn it had, whatever made the decoder run the probe.
C35_NeverBackwards ==
    [][/\ replication_lsn' >= replication_lsn
       /\ SameDecoder => last_commit_lsn' >= last_commit_lsn
       /\ dpc # "idle" => \A p \in NewProgress : p > last_commit_lsn]_vars

\* ------------------------------------------------------------ C36
\* C36: a decoder that is about to open the replication stream, for the
\* first time or after a probe, holds no row in its inserts and deletes
\* buffers; so the Begin a reopened stream delivers never ends the source
\* with a Definite error, and no row buffered before the probe is yielded
\* with the rows of the transaction sent again.
C36_BuffersEmptyOnReopen ==
    /\ [](dpc = "connect" => (inserts = <<>> /\ deletes = <<>>))
    /\ [][TakesBegin => (returned' = returned /\ pc' = pc)]_vars


\* ------------------------------------------------------------ C37
\* the number of Value records at LSN l for output o, row r and diff d
RECURSIVE ValuesAt(_, _, _, _, _)
ValuesAt(v, l, o, r, d) ==
    IF v = <<>> THEN 0
    ELSE (IF Head(v).lsn = l /\ Head(v).output = o /\ Head(v).value = r
             /\ Head(v).diff = d THEN 1 ELSE 0)
         + ValuesAt(Tail(v), l, o, r, d)

\* the commits of the upstream log after the LSN of the first
\* START_REPLICATION
AfterStreamStart ==
    {k \in 1..Len(wal) : starts # <<>> /\ wal[k].lsn > starts[1]}
\* the resume point of the task has passed the LSN l
ResumesAfter(l) == pc = "stream" /\ replication_lsn >= l
\* the transaction wal[k] was delivered a second time
DeliveredAgain(k) ==
    \E o \in SourceOids : \E r \in Rows : \E d \in {-1, 1} :
        ValuesAt(Values, wal[k].lsn, source_tables[o], r, d)
            > RowEvents(wal[k].msgs, o, r, d)

\* C37: of a transaction that commits after the LSN at which streaming
\* started, the consumer is never given more records than the transaction
\* has row events (none is emitted twice), and once the resume point of the
\* task has passed its LSN it was given exactly those (none is skipped).
C37_ExactlyOnce ==
    \A k \in AfterStreamStart :
        \A o \in SourceOids : \A r \in Rows : \A d \in {-1, 1} :
            LET n == ValuesAt(Values, wal[k].lsn, source_tables[o], r, d)
                e == RowEvents(wal[k].msgs, o, r, d)
            IN  /\ n <= e
                /\ ResumesAfter(wal[k].lsn) => n = e

\* ------------------------------------------------------------ C38
\* the streaming loop takes an error from the decoder and returns it
ErrorInStreaming == pc = "stream" /\ pc' # "stream"
\* every LSN with a record in the output has its end = TRUE record
AllSealed == \A i \in 1..Len(Values) : Sealed(Values[i].lsn)

\* C38: when the decoder yields an error in the streaming phase the
\* coalescer holds no record back and every LSN that has a record in the
\* output has received its end = TRUE record.
C38_NoErrorMidTransaction ==
    [][ErrorInStreaming => (buffered_message = <<>> /\ AllSealed)]_vars

\* an Indefinite error was returned in the streaming phase after a
\* transaction of two rows was emitted, and the task is about to start again
C38_Witness ==
    /\ pc = "start"
    /\ returned = "Indefinite"
    /\ starts # <<>>
    /\ \E i \in 1..Len(Values) : Values[i].lsn > starts[1] /\ ~Values[i].end

\* ------------------------------------------------------------ C39
\* C39: of every message the consumer has received: a Value moves the upper
\* capability to lsn + 1 and the data capability to lsn + 1 only with
\* end = TRUE; it arrives with lsn at or above the data capability and
\* lsn + 1 at or above the upper capability; an Err is stamped at
\* last_lsn + 1, which is below neither capability; no capability was asked
\* to move backwards.
C39_CapabilitiesForward ==
    /\ \A n \in 0..(received - 1) :
          LET r == ReaderAfter(n)
              m == out[n + 1]
              next == ReaderAfter(n + 1)
          IN  /\ m.type = "Value" =>
                    /\ next.upper_capability = m.lsn + 1
                    /\ next.data_capability =
                          IF m.end THEN m.lsn + 1 ELSE r.data_capability
                    /\ m.lsn >= r.data_capability
                    /\ m.lsn + 1 >= r.upper_capability
              /\ m.type = "Err" =>
                    /\ r.last_lsn + 1 >= r.data_capability
                    /\ r.last_lsn + 1 >= r.upper_capability
    /\ ~ReaderAfter(received).backwards
====
